---- MODULE Spec2Model ----
(***************************************************************************)
(* Model of the boilerplate generator page (src/pages/3_App Gemini.py):    *)
(* path sanitisation, JSON extraction from the model's text, file          *)
(* materialisation, packaging and the generation run that chains them,     *)
(* with the API key test before it, the reading of the model's response,   *)
(* successive runs of one session and overlapping runs of two sessions.    *)
(*                                                                         *)
(* Strings are sequences of one-character strings, so that the string      *)
(* operations of the source (strip, replace, split, find, regular          *)
(* expressions) are computed character by character.                       *)
(***************************************************************************)
EXTENDS Integers, Sequences, FiniteSets, TLC

VARIABLES
    path,       \* sanitize_relative_path: the argument p
    rel_path,   \* sanitize_relative_path: the value returned
    san_pc,     \* "input" before the call, "done" after it
    text,       \* extract_json_from_text: the argument
    wrap,       \* how text was built: "json_fence", "bare", "two_blocks", "no_brace"
    obj,        \* the JSON object that was serialized into text
    extracted,  \* extract_json_from_text: the manifest returned or the error raised
    ext_pc,     \* "input" before the call, "done" after it
    pc,            \* position of the generation run in the "if generate:" block
    rar_available, \* whether shutil.which finds the rar binary
    ui_name,       \* the project_name text input of the form
    fs,            \* the file system: absolute path -> node
    tmp_count,     \* number of directories tempfile.mkdtemp has handed out
    manifest,      \* the manifest returned by extract_json_from_text
    tmp_root,      \* local tmp_root (NoPath before mkdtemp)
    proj_dir,      \* local proj_dir
    idx,           \* write_files_from_manifest: index of the next entry of files
    created_files, \* write_files_from_manifest: the list being returned
    archive_path,  \* local archive_path
    archive_bytes, \* local archive_bytes
    exc,           \* an exception is propagating through the finally block
    error_shown,   \* st.error was called by the except clause
    session_state, \* st.session_state: the five stored result fields
    credentials,   \* os.environ and st.secrets: the four places of the API key
    tools,         \* the executables shutil.which finds on the search path
    replies,       \* which manifests a reply of the model can carry: "any" or "few"
    runs,          \* number of times the "Generar" button was pressed
    model_calls,   \* number of calls of model.generate_content
    chmod_failed,  \* some p.chmod(...) of the run raised and was passed over
    rmtree_failed, \* some shutil.rmtree(...) failed and was ignored
    other,         \* the locals of the overlapping run of another session
    response,      \* generate_with_gemini: what model.generate_content returned
    returned,      \* generate_with_gemini: the text returned or the error raised
    gen_pc,        \* "input" before the "if hasattr(response, ...)" tests, "done" after
    proveedores,   \* inventory store: the rows of table proveedores, by id
    productos,     \* inventory store: the rows of table productos, by id
    seq,           \* inventory store: the AUTOINCREMENT counter of each table
    inv_result     \* inventory store: the last operation, its arguments and outcome

san_vars == <<path, rel_path, san_pc>>

ext_vars == <<text, wrap, obj, extracted, ext_pc>>

pure_vars == <<path, rel_path, san_pc, text, wrap, obj, extracted, ext_pc>>

run_vars == <<pc, rar_available, ui_name, fs, tmp_count, manifest, tmp_root,
              proj_dir, idx, created_files, archive_path, archive_bytes, exc,
              error_shown, session_state, credentials, tools, replies, runs,
              model_calls, chmod_failed, rmtree_failed, other>>

gen_vars == <<response, returned, gen_pc>>

env_vars == <<credentials, tools, replies>>

inv_vars == <<proveedores, productos, seq, inv_result>>

\* what the actions of one run leave alone besides their own variables
rest_vars == <<pure_vars, gen_vars, env_vars, other, inv_vars>>

vars == <<path, rel_path, san_pc, text, wrap, obj, extracted, ext_pc, pc, rar_available, ui_name, fs, tmp_count,
          manifest, tmp_root, proj_dir, idx, created_files, archive_path,
          archive_bytes, exc, error_shown, session_state, credentials, tools,
          replies, runs, model_calls, chmod_failed, rmtree_failed, other,
          response, returned, gen_pc, proveedores, productos, seq, inv_result>>

(***************************************************************************)
(* Bounds                                                                  *)
(***************************************************************************)
MaxLen == 5          \* longest path string given to sanitize_relative_path
MaxFiles == 2        \* longest "files" list of a manifest
MaxText == 5         \* longest brace-free text given to extract_json_from_text
MaxParts == 1        \* most parts in one candidate of a model response
MaxCands == 2        \* most candidates in a model response
MaxRuns == 2         \* most presses of the button in one session
MaxContent == 3      \* longest content of the entry written in SpecTxt
MaxRows == 2         \* most rows ever inserted into one table of the inventory store

(***************************************************************************)
(* Strings                                                                 *)
(***************************************************************************)
NoStr == <<>>

\* all strings over the alphabet A of length at most n
StringsUpTo(A, n) == UNION {[1..k -> A] : k \in 0..n}

\* s[i:] and s[:j] of Python, 1-based here
Drop(s, n) == SubSeq(s, n + 1, Len(s))
Take(s, n) == SubSeq(s, 1, n)

\* number of leading characters of s that satisfy the set C
RECURSIVE LeadingRun(_, _)
LeadingRun(s, C) ==
    IF s = <<>> \/ Head(s) \notin C THEN 0 ELSE 1 + LeadingRun(Tail(s), C)

\* number of trailing characters of s that belong to C
RECURSIVE TrailingRun(_, _)
TrailingRun(s, C) ==
    IF s = <<>> \/ s[Len(s)] \notin C THEN 0
    ELSE 1 + TrailingRun(Take(s, Len(s) - 1), C)

\* the characters of the model alphabets for which str.isspace() holds
SpaceChars == {" ", "\n"}

\* str.lstrip(chars)
LStrip(s, C) == Drop(s, LeadingRun(s, C))

\* the variant that removes leading whitespace only
StrStrip_left_only(s) == LStrip(s, SpaceChars)

\* str.strip(): leading and trailing whitespace removed
StrStrip(s) ==
    LET t == LStrip(s, SpaceChars)
    IN  Take(t, Len(t) - TrailingRun(t, SpaceChars))

\* str.replace(old, new) for one-character old and new
StrReplace(s, old, new) == [i \in 1..Len(s) |-> IF s[i] = old THEN new ELSE s[i]]

\* str.find(c): 1-based index of the first c in s, 0 when there is none
RECURSIVE StrFind(_, _)
StrFind(s, c) ==
    IF s = <<>> THEN 0
    ELSE IF Head(s) = c THEN 1
    ELSE LET r == StrFind(Tail(s), c) IN IF r = 0 THEN 0 ELSE r + 1

\* str.rfind(c): 1-based index of the last c in s, 0 when there is none
RECURSIVE StrRFind(_, _)
StrRFind(s, c) ==
    IF s = <<>> THEN 0
    ELSE IF s[Len(s)] = c THEN Len(s)
    ELSE StrRFind(Take(s, Len(s) - 1), c)

\* str.split(sep) for a one-character separator: never an empty list
RECURSIVE StrSplit(_, _)
StrSplit(s, sep) ==
    LET i == StrFind(s, sep)
    IN  IF i = 0 THEN <<s>>
        ELSE <<Take(s, i - 1)>> \o StrSplit(Drop(s, i), sep)

\* sep.join(parts)
RECURSIVE StrJoin(_, _)
StrJoin(parts, sep) ==
    IF parts = <<>> THEN <<>>
    ELSE IF Len(parts) = 1 THEN parts[1]
    ELSE parts[1] \o <<sep>> \o StrJoin(Tail(parts), sep)

\* [x for x in parts if x not in banned]
RECURSIVE FilterOut(_, _)
FilterOut(parts, banned) ==
    IF parts = <<>> THEN <<>>
    ELSE IF Head(parts) \in banned THEN FilterOut(Tail(parts), banned)
    ELSE <<Head(parts)>> \o FilterOut(Tail(parts), banned)

(***************************************************************************)
(* sanitize_relative_path                                                  *)
(***************************************************************************)
\* the variant whose pattern is ^\./ : only a single leading dot is removed
SubLeadingDots_single_dot(p) ==
    IF Len(p) >= 2 /\ p[1] = "." /\ p[2] = "/" THEN Drop(p, 2) ELSE p

\* re.sub(r"^\.+/", "", p): a leading run of one or more dots followed by a
\* slash is removed; the pattern is anchored, so at most one replacement.
SubLeadingDots(p) ==
    LET n == LeadingRun(p, {"."})
    IN  IF n >= 1 /\ n < Len(p) /\ p[n + 1] = "/" THEN Drop(p, n + 1) ELSE p

\* the segments the list comprehension refuses
BannedParts == {<<>>, <<".">>, <<".", ".">>}

\* the variant that forgets to strip the surrounding whitespace
sanitize_no_strip(p) ==
    LET p1 == StrReplace(p, "\\", "/")
        p2 == SubLeadingDots(p1)
        p3 == LStrip(p2, {"/"})
    IN  StrJoin(FilterOut(StrSplit(p3, "/"), BannedParts), "/")

\* the variant that forgets to drop the ".." segments
sanitize_keeps_dotdot(p) ==
    LET p1 == StrReplace(StrStrip(p), "\\", "/")
        p2 == SubLeadingDots(p1)
        p3 == LStrip(p2, {"/"})
    IN  StrJoin(FilterOut(StrSplit(p3, "/"), {<<>>, <<".">>}), "/")

sanitize_relative_path(p) ==
    LET p1 == StrReplace(StrStrip(p), "\\", "/")
        p2 == SubLeadingDots(p1)
        p3 == LStrip(p2, {"/"})
        parts == FilterOut(StrSplit(p3, "/"), BannedParts)
    IN  StrJoin(parts, "/")

(***************************************************************************)
(* JSON                                                                    *)
(*                                                                         *)
(* A JSON value is a record: t is "obj", "str" or "num"; s holds the       *)
(* characters of a string or the digits of a number; m holds the members   *)
(* of an object as <<key, value>> pairs in insertion order.                *)
(***************************************************************************)
JStr(s) == [t |-> "str", s |-> s, m |-> <<>>]
JNum(s) == [t |-> "num", s |-> s, m |-> <<>>]
JObj(m) == [t |-> "obj", s |-> NoStr, m |-> m]
JNull == [t |-> "null", s |-> NoStr, m |-> <<>>]

\* the index that follows the whitespace starting at index i of s
WsEnd(s, i) == i + LeadingRun(Drop(s, i - 1), SpaceChars)

ParseError == [ok |-> FALSE, val |-> JNull, pos |-> 0]

\* dict[k] = v: a repeated key keeps its place and takes the last value
DictSet(m, k, v) ==
    IF \E i \in 1..Len(m) : m[i][1] = k
    THEN [i \in 1..Len(m) |-> IF m[i][1] = k THEN <<k, v>> ELSE m[i]]
    ELSE Append(m, <<k, v>>)

\* json.decoder.scanstring from the opening quote at index i: the string ends
\* at the next quote; a raw control character inside it is an error
ParseString(s, i) ==
    IF i > Len(s) \/ s[i] # "\"" THEN ParseError
    ELSE LET rest == Drop(s, i)
             j == StrFind(rest, "\"")
         IN  IF j = 0 THEN ParseError
             ELSE IF \E k \in 1..(j - 1) : rest[k] = "\n" THEN ParseError
             ELSE [ok |-> TRUE, val |-> JStr(Take(rest, j - 1)), pos |-> i + j + 1]

\* a number: the digits from index i
ParseNumber(s, i) ==
    LET n == LeadingRun(Drop(s, i - 1), {"1"})
    IN  IF n = 0 THEN ParseError
        ELSE [ok |-> TRUE, val |-> JNum(SubSeq(s, i, i + n - 1)), pos |-> i + n]

RECURSIVE ParseValue(_, _)
RECURSIVE ParseMembers(_, _, _)

\* json.scanner scan_once at index i
ParseValue(s, i) ==
    IF i > Len(s) THEN ParseError
    ELSE IF s[i] = "\"" THEN ParseString(s, i)
    ELSE IF s[i] = "1" THEN ParseNumber(s, i)
    ELSE IF s[i] = "{"
    THEN LET a == WsEnd(s, i + 1)
         IN  IF a > Len(s) THEN ParseError
             ELSE IF s[a] = "}" THEN [ok |-> TRUE, val |-> JObj(<<>>), pos |-> a + 1]
             ELSE IF s[a] # "\"" THEN ParseError
             ELSE ParseMembers(s, a, <<>>)
    ELSE ParseError

\* json.decoder.JSONObject from the opening quote of a key at index i
ParseMembers(s, i, acc) ==
    LET k == ParseString(s, i)
        c == WsEnd(s, k.pos)
        v == ParseValue(s, WsEnd(s, c + 1))
        acc2 == DictSet(acc, k.val.s, v.val)
        d == WsEnd(s, v.pos)
        n == WsEnd(s, d + 1)
    IN  IF ~k.ok THEN ParseError
        ELSE IF c > Len(s) \/ s[c] # ":" THEN ParseError
        ELSE IF ~v.ok THEN ParseError
        ELSE IF d > Len(s) THEN ParseError
        ELSE IF s[d] = "}" THEN [ok |-> TRUE, val |-> JObj(acc2), pos |-> d + 1]
        ELSE IF s[d] # "," THEN ParseError
        ELSE IF n > Len(s) \/ s[n] # "\"" THEN ParseError
        ELSE ParseMembers(s, n, acc2)

\* json.loads(raw): one value, whitespace allowed around it, nothing else
json_loads(raw) ==
    LET v == ParseValue(raw, WsEnd(raw, 1))
    IN  IF v.ok /\ WsEnd(raw, v.pos) = Len(raw) + 1
        THEN [ok |-> TRUE, val |-> v.val]
        ELSE [ok |-> FALSE, val |-> JNull]

(***************************************************************************)
(* extract_json_from_text                                                  *)
(***************************************************************************)
WordChars == {"j", "s", "o", "n", "p", "1", "J", "S", "O", "N"}

\* the character ` (a TLA+ string cannot hold it)
BT == "BT"

Fence == <<BT, BT, BT>>
JsonTag == <<"j", "s", "o", "n">>

\* str.lower() on the letters of the tag
TagLower(s) ==
    [i \in 1..Len(s) |->
        IF s[i] = "J" THEN "j" ELSE IF s[i] = "S" THEN "s"
        ELSE IF s[i] = "O" THEN "o" ELSE IF s[i] = "N" THEN "n" ELSE s[i]]

FenceAt(s, i) == i >= 1 /\ i + 2 <= Len(s) /\ SubSeq(s, i, i + 2) = Fence

\* (\{[\s\S]*?\})\s*``` from an opening brace at index b: the indices e of a
\* "}" after b that whitespace and a fence follow; the lazy quantifier
\* takes the smallest
ClosingBraces(s, b) ==
    {e \in (b + 1)..Len(s) : s[e] = "}" /\ FenceAt(s, WsEnd(s, e + 1))}

Min(S) == CHOOSE m \in S : \A n \in S : m <= n

NoMatch == [found |-> FALSE, raw |-> NoStr]

\* the match of \s*(\{[\s\S]*?\})\s*``` with \s* starting at index a
ObjectThenFence(s, a) ==
    LET b == WsEnd(s, a)
    IN  IF b <= Len(s) /\ s[b] = "{" /\ ClosingBraces(s, b) # {}
        THEN [found |-> TRUE, raw |-> SubSeq(s, b, Min(ClosingBraces(s, b)))]
        ELSE NoMatch

\* ```json\s*(\{[\s\S]*?\})\s*``` with re.IGNORECASE, attempted at index i
JsonBlockAt(s, i) ==
    IF FenceAt(s, i) /\ i + 6 <= Len(s) /\ TagLower(SubSeq(s, i + 3, i + 6)) = JsonTag
    THEN ObjectThenFence(s, i + 7)
    ELSE NoMatch

\* ```[\w]*\s*(\{[\s\S]*?\})\s*``` attempted at index i
AnyBlockAt(s, i) ==
    IF FenceAt(s, i)
    THEN ObjectThenFence(s, i + 3 + LeadingRun(Drop(s, i + 2), WordChars))
    ELSE NoMatch

\* re.search: the match at the leftmost index where the pattern matches
JsonBlockSearch(s) ==
    LET I == {i \in 1..Len(s) : JsonBlockAt(s, i).found}
    IN  IF I = {} THEN NoMatch ELSE JsonBlockAt(s, Min(I))

AnyBlockSearch(s) ==
    LET I == {i \in 1..Len(s) : AnyBlockAt(s, i).found}
    IN  IF I = {} THEN NoMatch ELSE AnyBlockAt(s, Min(I))

\* the variant whose guard forgets "start != -1": text[-1 : end + 1] is then
\* given to json.loads
BraceSpan_no_start_test(s) ==
    LET start == StrFind(s, "{")
        end == StrRFind(s, "}")
    IN  IF end # 0 /\ end > start
        THEN [found |-> TRUE,
              raw |-> IF start = 0 THEN SubSeq(s, Len(s), end) ELSE SubSeq(s, start, end)]
        ELSE NoMatch

\* the variant that hands the whole text to json.loads
BraceSpan_whole_text(s) ==
    LET start == StrFind(s, "{")
        end == StrRFind(s, "}")
    IN  IF start # 0 /\ end # 0 /\ end > start
        THEN [found |-> TRUE, raw |-> s]
        ELSE NoMatch

\* text[start : end + 1] when start != -1 and end != -1 and end > start
BraceSpan(s) ==
    LET start == StrFind(s, "{")
        end == StrRFind(s, "}")
    IN  IF start # 0 /\ end # 0 /\ end > start
        THEN [found |-> TRUE, raw |-> SubSeq(s, start, end)]
        ELSE NoMatch

\* return json.loads(raw): the value, or the JSONDecodeError it raises
Returned(raw) ==
    IF json_loads(raw).ok
    THEN [kind |-> "manifest", val |-> json_loads(raw).val]
    ELSE [kind |-> "JSONDecodeError", val |-> JNull]

extract_json_from_text(s) ==
    IF JsonBlockSearch(s).found THEN Returned(JsonBlockSearch(s).raw)
    ELSE IF AnyBlockSearch(s).found THEN Returned(AnyBlockSearch(s).raw)
    ELSE IF BraceSpan(s).found THEN Returned(BraceSpan(s).raw)
    ELSE [kind |-> "ValueError", val |-> JNull]

(***************************************************************************)
(* File system                                                             *)
(*                                                                         *)
(* An absolute path is the sequence of its segments; the root is <<>>.     *)
(* A node is a directory, a text file, or an archive file whose bytes are  *)
(* represented by the tree they pack.                                      *)
(***************************************************************************)
NoPath == <<>>

DirNode == [kind |-> "dir", content |-> NoStr, exec |-> FALSE, tree |-> {}]
FileNode(c, x) == [kind |-> "file", content |-> c, exec |-> x, tree |-> {}]
ArchiveNode(fmt, t) == [kind |-> fmt, content |-> NoStr, exec |-> FALSE, tree |-> t]

IsPrefix(a, b) == Len(a) <= Len(b) /\ Take(b, Len(a)) = a
StrictlyInside(q, d) == IsPrefix(d, q) /\ q # d

\* PurePath.parent and PurePath.name
Parent(q) == IF q = <<>> THEN <<>> ELSE Take(q, Len(q) - 1)
Name(q) == IF q = <<>> THEN NoStr ELSE q[Len(q)]

\* the path the operating system reaches from base along the segments segs:
\* "" and "." stay in place, ".." goes to the parent, a name goes down
RECURSIVE Walk(_, _)
Walk(base, segs) ==
    IF segs = <<>> THEN base
    ELSE IF Head(segs) \in {<<>>, <<".">>} THEN Walk(base, Tail(segs))
    ELSE IF Head(segs) = <<".", ".">> THEN Walk(Parent(base), Tail(segs))
    ELSE Walk(Append(base, Head(segs)), Tail(segs))

\* base / rel of pathlib, as resolved when the path is used: an absolute rel
\* replaces base
JoinPath(base, rel) ==
    IF rel # <<>> /\ rel[1] = "/" THEN Walk(<<>>, StrSplit(rel, "/"))
    ELSE Walk(base, StrSplit(rel, "/"))

Prefixes(d) == {Take(d, k) : k \in 0..Len(d)}

\* Path.mkdir(parents=True, exist_ok=True) succeeds unless a prefix is a file
MkdirOk(f, d) == \A q \in Prefixes(d) : q \in DOMAIN f => f[q].kind = "dir"
Mkdir(f, d) ==
    [q \in DOMAIN f \cup Prefixes(d) |-> IF q \in DOMAIN f THEN f[q] ELSE DirNode]

\* open(p, "w") succeeds when p is not a directory and its parent is one
OpenOk(f, p) ==
    /\ Parent(p) \in DOMAIN f /\ f[Parent(p)].kind = "dir"
    /\ p \in DOMAIN f => f[p].kind # "dir"

\* the concatenation of the strings of a sequence
RECURSIVE Flatten(_)
Flatten(ss) == IF ss = <<>> THEN NoStr ELSE Head(ss) \o Flatten(Tail(ss))

\* what a text file opened for writing with newline = nl does to the text it
\* is given: every "\n" character is written as nl, every other character
\* (a "\r" included) as itself
TranslateNewlines(c, nl) ==
    Flatten([i \in 1..Len(c) |-> IF c[i] = "\n" THEN nl ELSE <<c[i]>>])

\* the newline argument of the open call
Newline == <<"\n">>

\* the variant that opens in append mode
WriteText_append(f, p, c) ==
    [q \in DOMAIN f \cup {p} |->
        IF q = p
        THEN FileNode((IF p \in DOMAIN f THEN f[p].content ELSE NoStr) \o c,
                      IF p \in DOMAIN f THEN f[p].exec ELSE FALSE)
        ELSE f[q]]

\* open(p, "w", ...) followed by out.write(content): the file is created or
\* truncated; the mode of an existing file is kept; the text goes through the
\* newline translation of the text layer
WriteText(f, p, c) ==
    [q \in DOMAIN f \cup {p} |->
        IF q = p THEN FileNode(TranslateNewlines(c, Newline),
                               IF p \in DOMAIN f THEN f[p].exec ELSE FALSE)
        ELSE f[q]]

\* the variant that sets no permission bit
Chmod_no_bits(f, p) == f

\* p.chmod(p.stat().st_mode | 0o111)
Chmod(f, p) == [f EXCEPT ![p].exec = TRUE]

\* what an archiver packs from directory d: every node below d, by its path
\* relative to d
TreeOf(f, d) ==
    {<<Drop(q, Len(d)), f[q].kind, f[q].content>> :
        q \in {r \in DOMAIN f : StrictlyInside(r, d)}}

\* shutil.rmtree(d, ignore_errors=True)
Rmtree(f, d) == [q \in {r \in DOMAIN f : ~IsPrefix(d, r)} |-> f[q]]

\* the variant that takes the suffix from the first dot of the name
Suffix_first_dot(q) ==
    LET n == Name(q)
        i == StrFind(n, ".")
    IN  IF 1 < i /\ i < Len(n) THEN Drop(n, i - 1) ELSE NoStr

\* PurePath.suffix: from the last dot of the name, unless that dot is the
\* first or the last character of the name
Suffix(q) ==
    LET n == Name(q)
        i == StrRFind(n, ".")
    IN  IF 1 < i /\ i < Len(n) THEN Drop(n, i - 1) ELSE NoStr

\* PurePath.with_suffix(ext)
WithSuffix(q, ext) ==
    LET n == Name(q)
    IN  Append(Parent(q), Take(n, Len(n) - Len(Suffix(q))) \o ext)

\* str.lower() on the letters of the model alphabets
LowerChar(c) == IF c = "R" THEN "r" ELSE IF c = "A" THEN "a" ELSE c
StrLower(s) == [i \in 1..Len(s) |-> LowerChar(s[i])]

DotRar == <<".", "r", "a", "r">>
DotZip == <<".", "z", "i", "p">>
MimeRar == "application/x-rar-compressed"
MimeZip == "application/zip"

\* the variables of the pure functions at rest, for the other specifications
SanIdle == path = NoStr /\ rel_path = NoStr /\ san_pc = "idle"
ExtIdle ==
    /\ text = NoStr /\ wrap = "none" /\ obj = JNull
    /\ extracted = [kind |-> "none", val |-> JNull]
    /\ ext_pc = "idle"

(***************************************************************************)
(* get_api_key and tool_exists                                             *)
(***************************************************************************)
\* Optional values: None keeps the shape of the value it stands for
None(default) == [is_none |-> TRUE, val |-> default]
Some(v) == [is_none |-> FALSE, val |-> v]

\* what os.environ.get(name) or st.secrets.get(name, None) gives: None, the
\* empty string, or a key
KeyValues == {None(NoStr), Some(NoStr), Some(<<"k">>)}
Credentials ==
    [env_gemini : KeyValues, env_google : KeyValues,
     sec_gemini : KeyValues, sec_google : KeyValues]

\* the variant of the truth test that only takes None for false
Falsy_none_only(v) == v.is_none

\* "not v" of Python for an optional string
Falsy(v) == v.is_none \/ v.val = NoStr

\* "a or b" of Python
Or(a, b) == IF Falsy(a) THEN b ELSE a

get_api_key(c) == Or(Or(Or(c.env_gemini, c.env_google), c.sec_gemini), c.sec_google)

\* the names create_archive_from_dir looks for, and a tool it does not
RarNames == {"rar", "Rar", "rar.exe", "Rar.exe"}
ToolSets == SUBSET RarNames \cup {{"unrar"}}

\* shutil.which(tool_name) is not None, on the search path holding t
tool_exists(t, tool_name) == tool_name \in t

\* the variant that looks for the lower-case names only
RarAvailable_lower_case(t) == tool_exists(t, "rar") \/ tool_exists(t, "rar.exe")

\* rar_available of create_archive_from_dir
RarAvailable(t) ==
    \/ tool_exists(t, "rar") \/ tool_exists(t, "Rar")
    \/ tool_exists(t, "rar.exe") \/ tool_exists(t, "Rar.exe")

(***************************************************************************)
(* generate_with_gemini: from the response of model.generate_content to    *)
(* the text returned                                                       *)
(***************************************************************************)
PartTexts == {NoStr, <<"t">>, <<" ">>}
Parts == [has_text : {TRUE}, text : PartTexts]
         \cup [has_text : {FALSE}, text : {NoStr}]
Candidates ==
    [has_content : {TRUE}, parts : UNION {[1..k -> Parts] : k \in 0..MaxParts}]
    \cup [has_content : {FALSE}, parts : {<<>>}]
\* text: the attribute may be missing; candidates: None or a list
Responses ==
    [has_text : {TRUE}, text : PartTexts, has_candidates : {FALSE},
     candidates : {<<>>}]
    \cup [has_text : {FALSE}, text : {NoStr}, has_candidates : {FALSE},
          candidates : {<<>>}]
    \cup [has_text : {TRUE}, text : {NoStr, <<"t">>}, has_candidates : {TRUE},
          candidates : UNION {[1..k -> Candidates] : k \in 0..MaxCands}]
    \cup [has_text : {FALSE}, text : {NoStr}, has_candidates : {TRUE},
          candidates : UNION {[1..k -> Candidates] : k \in 0..MaxCands}]
NoResponse == [has_text |-> FALSE, text |-> NoStr, has_candidates |-> FALSE,
               candidates |-> <<>>]

\* [part.text for part in parts if hasattr(part, "text")]
RECURSIVE TextsOf(_)
TextsOf(parts) ==
    IF parts = <<>> THEN <<>>
    ELSE IF Head(parts).has_text
         THEN <<Head(parts).text>> \o TextsOf(Tail(parts))
         ELSE TextsOf(Tail(parts))

\* the list "parts" after the two nested loops over the candidates
RECURSIVE CollectParts(_)
CollectParts(cands) ==
    IF cands = <<>> THEN <<>>
    ELSE TextsOf(Head(cands).parts) \o CollectParts(Tail(cands))

\* lines 245-255: the text returned, or the error raised; a candidate
\* without "content" makes "[].parts" raise AttributeError
generate_with_gemini(r) ==
    IF r.has_text /\ r.text # NoStr THEN [kind |-> "text", val |-> r.text]
    ELSE IF r.has_candidates /\ r.candidates # <<>>
    THEN IF \E i \in 1..Len(r.candidates) : ~r.candidates[i].has_content
         THEN [kind |-> "AttributeError", val |-> NoStr]
         ELSE [kind |-> "text",
               val |-> StrStrip(StrJoin(CollectParts(r.candidates), "\n"))]
    ELSE [kind |-> "RuntimeError", val |-> NoStr]

\* how generate_with_gemini can end, over the responses of the model
ReturnKinds == {generate_with_gemini(r).kind : r \in Responses}

\* the variables of generate_with_gemini at rest
GenIdle ==
    /\ response = NoResponse
    /\ returned = [kind |-> "none", val |-> NoStr]
    /\ gen_pc = "idle"

(***************************************************************************)
(* The inventory store: tables proveedores and productos of inventario.db  *)
(* and the six functions that change them.  Of the columns that carry no   *)
(* constraint the model keeps none; precio is constrained as stock is.     *)
(***************************************************************************)
\* the NULL of an integer column, and Python's None for an id
NULL == None(0)

\* a table without rows
NoRows == [i \in {} |-> NULL]

\* the state init_db leaves in a new database file
EmptyStore ==
    [proveedores |-> NoRows, productos |-> NoRows,
     seq |-> [proveedores |-> 0, productos |-> 0]]

\* "proveedor_id if proveedor_id else None"
IdOrNone(v) == IF v.is_none \/ v.val = 0 THEN NULL ELSE v

\* the rows of table t with row id set to r, and with row id removed
WithRow(t, id, r) == [i \in DOMAIN t \cup {id} |-> IF i = id THEN r ELSE t[i]]

WithoutRow(t, id) == [i \in DOMAIN t \ {id} |-> t[i]]

\* the variant without the UNIQUE constraint
UniqueViolation_none(provs, id, nombre) == FALSE

\* nombre TEXT NOT NULL UNIQUE: a row other than row id holds the name
UniqueViolation(provs, id, nombre) ==
    \E i \in DOMAIN provs : i # id /\ provs[i].nombre = nombre

\* the variant that takes no action on the referencing rows
OnDeleteSetNull_no_action(prods, id) == prods

\* FOREIGN KEY (proveedor_id) REFERENCES proveedores(id) ON DELETE SET NULL,
\* enforced because get_conn sets PRAGMA foreign_keys = ON
OnDeleteSetNull(prods, id) ==
    [i \in DOMAIN prods |->
        IF prods[i].proveedor_id = Some(id)
        THEN [prods[i] EXCEPT !.proveedor_id = NULL]
        ELSE prods[i]]

\* the foreign key of a row written to productos fails
ForeignKeyViolation(provs, ref) == ~ref.is_none /\ ref.val \notin DOMAIN provs

\* stock INTEGER DEFAULT 0 CHECK(stock >= 0)
CheckViolation(stock) == ~(stock >= 0)

\* what the caller of an operation gets: the pair (ok, message), of which
\* the model keeps ok, or the exception the operation lets through
Outcome(op, id, nombre, ok, raised) ==
    [op |-> op, id |-> id, nombre |-> nombre, ok |-> ok, raised |-> raised]

NoOutcome == Outcome("none", 0, NoStr, FALSE, FALSE)

\* the variables of the inventory store at rest
InvIdle ==
    /\ proveedores = NoRows
    /\ productos = NoRows
    /\ seq = EmptyStore.seq
    /\ inv_result = NoOutcome

\* the names, stocks and ids the operations are called with
NameInputs == {<<"a">>, <<"b">>, <<" ", "a">>}

ProductNames == {<<"p">>}

StockInputs == {0, 1, -1}

Ids == 1..MaxRows

RefInputs == {NULL, Some(0)} \cup {Some(i) : i \in Ids}

crear_proveedor ==
    \E nombre \in NameInputs :
        IF UniqueViolation(proveedores, 0, StrStrip(nombre))
        THEN /\ inv_result' = Outcome("crear_proveedor", 0, nombre, FALSE, FALSE)
             /\ UNCHANGED <<proveedores, productos, seq>>
        ELSE /\ seq.proveedores < MaxRows
             /\ proveedores' = WithRow(proveedores, seq.proveedores + 1,
                                       [nombre |-> StrStrip(nombre)])
             /\ seq' = [seq EXCEPT !.proveedores = @ + 1]
             /\ inv_result' = Outcome("crear_proveedor", 0, nombre, TRUE, FALSE)
             /\ UNCHANGED productos

actualizar_proveedor ==
    \E pid \in Ids, nombre \in NameInputs :
        IF pid \in DOMAIN proveedores /\ UniqueViolation(proveedores, pid, StrStrip(nombre))
        THEN /\ inv_result' = Outcome("actualizar_proveedor", pid, nombre, FALSE, FALSE)
             /\ UNCHANGED <<proveedores, productos, seq>>
        ELSE /\ proveedores' =
                    IF pid \in DOMAIN proveedores
                    THEN WithRow(proveedores, pid, [nombre |-> StrStrip(nombre)])
                    ELSE proveedores
             /\ inv_result' = Outcome("actualizar_proveedor", pid, nombre, TRUE, FALSE)
             /\ UNCHANGED <<productos, seq>>

eliminar_proveedor ==
    \E pid \in Ids :
        /\ proveedores' = WithoutRow(proveedores, pid)
        /\ productos' =
               IF pid \in DOMAIN proveedores THEN OnDeleteSetNull(productos, pid)
               ELSE productos
        /\ inv_result' = Outcome("eliminar_proveedor", pid, NoStr, TRUE, FALSE)
        /\ UNCHANGED seq

crear_producto ==
    \E nombre \in ProductNames, stock \in StockInputs, proveedor_id \in RefInputs :
        IF \/ CheckViolation(stock)
           \/ ForeignKeyViolation(proveedores, IdOrNone(proveedor_id))
        THEN /\ inv_result' = Outcome("crear_producto", 0, nombre, FALSE, TRUE)
             /\ UNCHANGED <<proveedores, productos, seq>>
        ELSE /\ seq.productos < MaxRows
             /\ productos' = WithRow(productos, seq.productos + 1,
                                     [nombre |-> StrStrip(nombre), stock |-> stock,
                                      proveedor_id |-> IdOrNone(proveedor_id)])
             /\ seq' = [seq EXCEPT !.productos = @ + 1]
             /\ inv_result' = Outcome("crear_producto", 0, nombre, TRUE, FALSE)
             /\ UNCHANGED proveedores

actualizar_producto ==
    \E pid \in Ids, nombre \in ProductNames, stock \in StockInputs,
       proveedor_id \in RefInputs :
        IF /\ pid \in DOMAIN productos
           /\ \/ CheckViolation(stock)
              \/ ForeignKeyViolation(proveedores, IdOrNone(proveedor_id))
        THEN /\ inv_result' = Outcome("actualizar_producto", pid, nombre, FALSE, TRUE)
             /\ UNCHANGED <<proveedores, productos, seq>>
        ELSE /\ productos' =
                    IF pid \in DOMAIN productos
                    THEN WithRow(productos, pid,
                                 [nombre |-> StrStrip(nombre), stock |-> stock,
                                  proveedor_id |-> IdOrNone(proveedor_id)])
                    ELSE productos
             /\ inv_result' = Outcome("actualizar_producto", pid, nombre, TRUE, FALSE)
             /\ UNCHANGED <<proveedores, seq>>

eliminar_producto ==
    \E pid \in Ids :
        /\ productos' = WithoutRow(productos, pid)
        /\ inv_result' = Outcome("eliminar_producto", pid, NoStr, TRUE, FALSE)
        /\ UNCHANGED <<proveedores, seq>>

(***************************************************************************)
(* The generation run: the block under "if generate:"                      *)
(***************************************************************************)
\* tempfile.gettempdir() and the names mkdtemp(prefix="boilerplate_") makes
TempDir == <<<<"t", "m", "p">>>>
Digits == <<"1", "2", "3", "4", "5", "6", "7", "8", "9">>

\* the variant in which every temporary directory gets the same name
TmpNames_one_name == [n \in 1..Len(Digits) |-> <<"b", "_", Digits[1]>>]

TmpNames == [n \in 1..Len(Digits) |-> <<"b", "_", Digits[n]>>]
InitialFs == [q \in {<<>>, TempDir} |-> DirNode]

Proyecto == <<"p", "r", "o", "y", "e", "c", "t", "o">>

NoManifest == [has_name |-> FALSE, project_name |-> NoStr, has_files |-> FALSE,
               files |-> <<>>]
NoBytes == [fmt |-> "", tree |-> {}]

\* the inputs of the run
ProjectNames == {NoStr, <<".", ".">>, <<"a">>, <<"a", ".", "b">>, <<"a", "/", "c">>}
EntryPaths == {NoStr, <<"a">>, <<"a", "/", "b">>, <<".", ".", "/", "a">>, <<" ">>}
Contents == {<<"x">>, <<"y">>}
\* the content and the executable flag of an entry: two contents without the
\* flag, one with it
Payloads ==
    [content : Contents, executable : {FALSE}]
    \cup [content : {<<"x">>}, executable : {TRUE}]
FileEntries ==
    {[path |-> p, content |-> c.content, executable |-> c.executable] :
        p \in EntryPaths, c \in Payloads}
\* a manifest may lack "project_name" and may lack "files"
Manifests ==
    [has_name : {TRUE}, project_name : ProjectNames, has_files : {TRUE},
     files : UNION {[1..k -> FileEntries] : k \in 0..MaxFiles}]
    \cup [has_name : {FALSE}, project_name : {NoStr}, has_files : {TRUE},
          files : UNION {[1..k -> FileEntries] : k \in 0..MaxFiles}]
    \cup [has_name : {TRUE}, project_name : ProjectNames, has_files : {FALSE},
          files : {<<>>}]
    \cup [has_name : {FALSE}, project_name : {NoStr}, has_files : {FALSE},
          files : {<<>>}]
UiNames == {NoStr, <<"u">>}

\* a few manifests, for the specifications of several runs
SmallManifests ==
    [has_name : {TRUE}, project_name : {NoStr, <<"a">>, <<"a", ".", "b">>},
     has_files : {TRUE},
     files : {<<>>} \cup {<<[path |-> <<"a">>, content |-> <<"x">>,
                             executable |-> x]>> : x \in BOOLEAN}]
    \cup {NoManifest}

\* the manifests the model can reply with
RepliesOf(r) == IF r = "few" THEN SmallManifests ELSE Manifests

\* manifest.get("files", [])
FilesOf(m) == IF m.has_files THEN m.files ELSE <<>>

\* the credentials: a key in the environment only, and none anywhere
EnvKey ==
    [env_gemini |-> Some(<<"k">>), env_google |-> None(NoStr),
     sec_gemini |-> None(NoStr), sec_google |-> None(NoStr)]
NoKey ==
    [env_gemini |-> None(NoStr), env_google |-> None(NoStr),
     sec_gemini |-> None(NoStr), sec_google |-> None(NoStr)]

\* the locals of a run and the session state of its session
Locals ==
    [pc |-> pc, ui_name |-> ui_name, manifest |-> manifest,
     tmp_root |-> tmp_root, proj_dir |-> proj_dir, idx |-> idx,
     created_files |-> created_files, archive_path |-> archive_path,
     archive_bytes |-> archive_bytes, exc |-> exc,
     error_shown |-> error_shown, session_state |-> session_state]
EmptySession ==
    [generated_manifest |-> None(NoManifest),
     created_files |-> <<>>,
     archive_bytes |-> None(NoBytes),
     archive_name |-> None(NoStr),
     archive_mime |-> None("")]
NoRun ==
    [pc |-> "off", ui_name |-> NoStr, manifest |-> NoManifest,
     tmp_root |-> NoPath, proj_dir |-> NoPath, idx |-> 0,
     created_files |-> <<>>, archive_path |-> NoPath,
     archive_bytes |-> NoBytes, exc |-> FALSE, error_shown |-> FALSE,
     session_state |-> EmptySession]

\* the state when the page is first loaded, for credentials among C, search
\* paths among T and model replies among R
InitWith(C, T, R) ==
    /\ SanIdle /\ ExtIdle /\ GenIdle /\ InvIdle
    /\ pc = "start"
    /\ credentials \in C
    /\ tools \in T
    /\ rar_available = RarAvailable(tools)
    /\ replies = R
    /\ ui_name \in UiNames
    /\ fs = InitialFs
    /\ tmp_count = 0
    /\ manifest = NoManifest
    /\ tmp_root = NoPath
    /\ proj_dir = NoPath
    /\ idx = 0
    /\ created_files = <<>>
    /\ archive_path = NoPath
    /\ archive_bytes = NoBytes
    /\ exc = FALSE
    /\ error_shown = FALSE
    /\ session_state = EmptySession
    /\ runs = 0
    /\ model_calls = 0
    /\ chmod_failed = FALSE
    /\ rmtree_failed = FALSE

Init == InitWith({EnvKey, NoKey}, {{}, {"rar"}}, "any") /\ other = NoRun

\* lines 276-279: api_key = get_api_key(); without a key st.error and
\* st.stop(), the rest of the script is not run
CheckApiKey ==
    /\ pc = "start"
    /\ IF Falsy(get_api_key(credentials))
       THEN pc' = "stopped" /\ error_shown' = TRUE
       ELSE pc' = "idle" /\ UNCHANGED error_shown
    /\ UNCHANGED <<rar_available, ui_name, fs, tmp_count, manifest, tmp_root,
                   proj_dir, idx, created_files, archive_path, archive_bytes,
                   exc, session_state>>

\* the variant that calls the model again after a failure
Raise_retry ==
    /\ pc' = "generate_with_gemini"
    /\ error_shown' = TRUE

\* the variant whose except clause reports nothing
Raise_silent ==
    /\ pc' = "done"
    /\ error_shown' = FALSE

\* an exception reaches "except Exception as e": st.error, end of the run
Raise ==
    /\ pc' = "done"
    /\ error_shown' = TRUE

\* the button is pressed; build_prompt has no effect on the state
Generate ==
    /\ pc = "idle"
    /\ runs < MaxRuns
    /\ runs' = runs + 1
    /\ pc' = "generate_with_gemini"
    /\ UNCHANGED <<rar_available, ui_name, fs, tmp_count, manifest, tmp_root,
                   proj_dir, idx, created_files, archive_path, archive_bytes,
                   exc, error_shown, session_state>>

\* raw_text = generate_with_gemini(...): the one call of
\* model.generate_content raises (network, quota), or gives a response from
\* which generate_with_gemini returns text or raises
GenerateWithGemini ==
    /\ pc = "generate_with_gemini"
    /\ model_calls' = model_calls + 1
    /\ \/ Raise
       \/ \E kind \in ReturnKinds :
            IF kind = "text"
            THEN pc' = "extract_json_from_text" /\ UNCHANGED error_shown
            ELSE Raise
    /\ UNCHANGED <<rar_available, ui_name, fs, tmp_count, manifest, tmp_root,
                   proj_dir, idx, created_files, archive_path, archive_bytes,
                   exc, session_state>>

\* manifest = extract_json_from_text(raw_text): the text is the model's, so
\* the manifest is any manifest, or the extraction raises
ExtractManifest ==
    /\ pc = "extract_json_from_text"
    /\ \/ \E m \in RepliesOf(replies) :
            /\ manifest' = m
            /\ pc' = "mkdtemp"
            /\ UNCHANGED error_shown
       \/ Raise /\ UNCHANGED manifest
    /\ UNCHANGED <<rar_available, ui_name, fs, tmp_count, tmp_root, proj_dir,
                   idx, created_files, archive_path, archive_bytes, exc,
                   session_state>>

\* tmp_root = Path(tempfile.mkdtemp(prefix="boilerplate_"))
Mkdtemp ==
    /\ pc = "mkdtemp"
    /\ tmp_count < Len(TmpNames)
    /\ \/ LET d == Append(TempDir, TmpNames[tmp_count + 1])
          IN  /\ tmp_root' = d
              /\ fs' = Mkdir(fs, d)
              /\ tmp_count' = tmp_count + 1
              /\ pc' = "proj_dir_mkdir"
              /\ UNCHANGED error_shown
       \/ Raise /\ UNCHANGED <<tmp_root, fs, tmp_count>>
    /\ UNCHANGED <<rar_available, ui_name, manifest, proj_dir, idx,
                   created_files, archive_path, archive_bytes, exc,
                   session_state>>

\* manifest.get("project_name", project_name or "proyecto")
ProjectNameOf(m, ui) ==
    IF m.has_name THEN m.project_name
    ELSE IF ui # NoStr THEN ui ELSE Proyecto

\* proj_dir = tmp_root / sanitize_relative_path(...);
\* proj_dir.mkdir(parents=True, exist_ok=True)
ProjDirMkdir ==
    /\ pc = "proj_dir_mkdir"
    /\ LET d == JoinPath(tmp_root, sanitize_relative_path(ProjectNameOf(manifest, ui_name)))
       IN  \/ /\ MkdirOk(fs, d)
              /\ proj_dir' = d
              /\ fs' = Mkdir(fs, d)
              /\ pc' = "write_files"
              /\ idx' = 1
              /\ created_files' = <<>>
              /\ UNCHANGED error_shown
           \/ /\ proj_dir' = d      \* the mkdir fails (permission, disk full)
              /\ Raise
              /\ UNCHANGED <<fs, idx, created_files>>
    /\ UNCHANGED <<rar_available, ui_name, tmp_count, manifest, tmp_root,
                   archive_path, archive_bytes, exc, session_state>>

\* one iteration of "for f in files" in write_files_from_manifest
WriteFile ==
    /\ pc = "write_files"
    /\ idx <= Len(FilesOf(manifest))
    /\ LET f == FilesOf(manifest)[idx]
           rel == sanitize_relative_path(f.path)
           p == JoinPath(proj_dir, rel)
           made == Mkdir(fs, Parent(p))
       IN  IF rel = NoStr
           THEN \* "if not rel_path: continue"
                /\ idx' = idx + 1
                /\ UNCHANGED <<pc, fs, created_files, error_shown, chmod_failed>>
           ELSE \/ /\ MkdirOk(fs, Parent(p)) /\ OpenOk(made, p)
                   /\ \E chmod_ok \in BOOLEAN :
                        /\ fs' = IF f.executable /\ chmod_ok
                                 THEN Chmod(WriteText(made, p, f.content), p)
                                 ELSE WriteText(made, p, f.content)
                        /\ chmod_failed' = (chmod_failed \/ (f.executable /\ ~chmod_ok))
                   /\ created_files' = Append(created_files, rel)
                   /\ idx' = idx + 1
                   /\ UNCHANGED <<pc, error_shown>>
                \/ \* p.parent.mkdir raises: a prefix is a file, or an I/O error
                   /\ Raise
                   /\ UNCHANGED <<fs, created_files, idx, chmod_failed>>
                \/ \* open or write raises after the parents were made
                   /\ MkdirOk(fs, Parent(p))
                   /\ fs' = made
                   /\ Raise
                   /\ UNCHANGED <<created_files, idx, chmod_failed>>
    /\ UNCHANGED <<rar_available, ui_name, tmp_count, manifest, tmp_root,
                   proj_dir, archive_path, archive_bytes, exc, session_state>>

\* "return created_files": the loop is over
WriteFilesReturn ==
    /\ pc = "write_files"
    /\ idx > Len(FilesOf(manifest))
    /\ pc' = "create_archive"
    /\ UNCHANGED <<rar_available, ui_name, fs, tmp_count, manifest, tmp_root,
                   proj_dir, idx, created_files, archive_path, archive_bytes,
                   exc, error_shown, session_state>>

\* the path create_archive_from_dir(src_dir, out_name) returns when the rar
\* binary is absent: archive_path_no_ext.with_suffix(".zip")
ZipReturnPath(src_dir, out_name) ==
    WithSuffix(Append(Parent(src_dir), out_name), DotZip)

\* the file shutil.make_archive(base_name, "zip", ...) writes: base_name + ".zip"
ZipCreatedPath(src_dir, out_name) == Append(Parent(src_dir), out_name \o DotZip)

\* src_dir.parent / f"{out_name}.rar"
RarPath(src_dir, out_name) == Append(Parent(src_dir), out_name \o DotRar)

\* archive_path = create_archive_from_dir(proj_dir, out_name=proj_dir.name)
CreateArchive ==
    /\ pc = "create_archive"
    /\ LET out_name == Name(proj_dir)
           made == IF rar_available THEN RarPath(proj_dir, out_name)
                   ELSE ZipCreatedPath(proj_dir, out_name)
           node == ArchiveNode(IF rar_available THEN "rar" ELSE "zip",
                               TreeOf(fs, proj_dir))
       IN  \/ /\ fs' = [q \in DOMAIN fs \cup {made} |->
                          IF q = made THEN node ELSE fs[q]]
              /\ archive_path' = IF rar_available THEN made
                                 ELSE ZipReturnPath(proj_dir, out_name)
              /\ pc' = "read_bytes"
              /\ UNCHANGED exc
           \/ \* the archiver exits nonzero, or make_archive raises
              /\ exc' = TRUE
              /\ pc' = "cleanup"
              /\ UNCHANGED <<fs, archive_path>>
    /\ UNCHANGED <<rar_available, ui_name, tmp_count, manifest, tmp_root,
                   proj_dir, idx, created_files, archive_bytes, error_shown,
                   session_state>>

\* archive_bytes = Path(archive_path).read_bytes()
ReadBytes ==
    /\ pc = "read_bytes"
    /\ \/ /\ archive_path \in DOMAIN fs
          /\ fs[archive_path].kind \in {"rar", "zip"}
          /\ archive_bytes' = [fmt |-> fs[archive_path].kind,
                               tree |-> fs[archive_path].tree]
          /\ pc' = "store"
          /\ UNCHANGED exc
       \/ \* no such file, or the read fails
          /\ exc' = TRUE
          /\ pc' = "cleanup"
          /\ UNCHANGED archive_bytes
    /\ UNCHANGED <<rar_available, ui_name, fs, tmp_count, manifest, tmp_root,
                   proj_dir, idx, created_files, archive_path, error_shown,
                   session_state>>

\* the variant that assigns the three archive fields only
Store_archive_only ==
    /\ pc = "store"
    /\ session_state' =
        [session_state EXCEPT
            !.archive_bytes = Some(archive_bytes),
            !.archive_name = Some(Name(archive_path)),
            !.archive_mime = Some(IF StrLower(Suffix(archive_path)) = DotRar
                                  THEN MimeRar ELSE MimeZip)]
    /\ pc' = "cleanup"
    /\ UNCHANGED <<rar_available, ui_name, fs, tmp_count, manifest, tmp_root,
                   proj_dir, idx, created_files, archive_path, archive_bytes,
                   exc, error_shown>>

\* archive_name, mime and the five assignments to st.session_state
Store ==
    /\ pc = "store"
    /\ session_state' =
        [generated_manifest |-> Some(manifest),
         created_files |-> created_files,
         archive_bytes |-> Some(archive_bytes),
         archive_name |-> Some(Name(archive_path)),
         archive_mime |-> Some(IF StrLower(Suffix(archive_path)) = DotRar
                               THEN MimeRar ELSE MimeZip)]
    /\ pc' = "cleanup"
    /\ UNCHANGED <<rar_available, ui_name, fs, tmp_count, manifest, tmp_root,
                   proj_dir, idx, created_files, archive_path, archive_bytes,
                   exc, error_shown>>

\* finally: shutil.rmtree(tmp_root, ignore_errors=True), which removes the
\* tree or fails and is ignored; a pending exception then reaches the except
\* clause
Cleanup ==
    /\ pc = "cleanup"
    /\ \E removed \in BOOLEAN :
        /\ fs' = IF removed THEN Rmtree(fs, tmp_root) ELSE fs
        /\ rmtree_failed' = (rmtree_failed \/ ~removed)
    /\ pc' = "done"
    /\ error_shown' = exc
    /\ exc' = FALSE
    /\ UNCHANGED <<rar_available, ui_name, tmp_count, manifest, tmp_root,
                   proj_dir, idx, created_files, archive_path, archive_bytes,
                   session_state>>

Next ==
    \/ (CheckApiKey /\ UNCHANGED <<rest_vars, runs, model_calls, chmod_failed, rmtree_failed>>)
    \/ (Generate /\ UNCHANGED <<rest_vars, model_calls, chmod_failed, rmtree_failed>>)
    \/ (GenerateWithGemini /\ UNCHANGED <<rest_vars, runs, chmod_failed, rmtree_failed>>)
    \/ (ExtractManifest /\ UNCHANGED <<rest_vars, runs, model_calls, chmod_failed, rmtree_failed>>)
    \/ (Mkdtemp /\ UNCHANGED <<rest_vars, runs, model_calls, chmod_failed, rmtree_failed>>)
    \/ (ProjDirMkdir /\ UNCHANGED <<rest_vars, runs, model_calls, chmod_failed, rmtree_failed>>)
    \/ (WriteFile /\ UNCHANGED <<rest_vars, runs, model_calls, rmtree_failed>>)
    \/ (WriteFilesReturn /\ UNCHANGED <<rest_vars, runs, model_calls, chmod_failed, rmtree_failed>>)
    \/ (CreateArchive /\ UNCHANGED <<rest_vars, runs, model_calls, chmod_failed, rmtree_failed>>)
    \/ (ReadBytes /\ UNCHANGED <<rest_vars, runs, model_calls, chmod_failed, rmtree_failed>>)
    \/ (Store /\ UNCHANGED <<rest_vars, runs, model_calls, chmod_failed, rmtree_failed>>)
    \/ (Cleanup /\ UNCHANGED <<rest_vars, runs, model_calls, chmod_failed>>)

Spec == Init /\ [][Next]_vars

(***************************************************************************)
(* Specification SpecRuns: up to MaxRuns generation requests, one after    *)
(* the other, in one session; the model replies with a manifest of         *)
(* SmallManifests.                                                         *)
(***************************************************************************)
\* the script is run again from the top after an interaction: its locals
\* are new, st.session_state, the disk and mkdtemp's names are kept
Restart ==
    /\ pc \in {"done", "stopped"}
    /\ runs < MaxRuns
    /\ pc' = "start"
    /\ manifest' = NoManifest
    /\ tmp_root' = NoPath
    /\ proj_dir' = NoPath
    /\ idx' = 0
    /\ created_files' = <<>>
    /\ archive_path' = NoPath
    /\ archive_bytes' = NoBytes
    /\ exc' = FALSE
    /\ error_shown' = FALSE
    /\ chmod_failed' = FALSE
    /\ rmtree_failed' = FALSE
    /\ UNCHANGED <<rar_available, ui_name, fs, tmp_count, session_state, runs,
                   model_calls>>

InitRuns == InitWith({EnvKey}, {{}, {"rar"}}, "few") /\ other = NoRun

NextRuns ==
    \/ Next
    \/ (Restart /\ UNCHANGED rest_vars)

SpecRuns == InitRuns /\ [][NextRuns]_vars

(***************************************************************************)
(* Specification SpecEnv: one generation request on every host: each       *)
(* combination of the four credential places and each search path of       *)
(* ToolSets.                                                               *)
(***************************************************************************)
InitEnv == InitWith(Credentials, ToolSets, "few") /\ other = NoRun

SpecEnv == InitEnv /\ [][Next]_vars

(***************************************************************************)
(* Specification SpecTwo: the runs of two sessions overlap in the host     *)
(* process. The variables of a run are those of the session whose thread   *)
(* takes the step; "other" holds those of the session that is waiting.     *)
(* The disk, the search path and mkdtemp's names are shared.               *)
(***************************************************************************)
\* the scheduler gives the processor to the thread of the other session
Switch ==
    /\ other.pc # "off"
    /\ other' = Locals
    /\ pc' = other.pc
    /\ ui_name' = other.ui_name
    /\ manifest' = other.manifest
    /\ tmp_root' = other.tmp_root
    /\ proj_dir' = other.proj_dir
    /\ idx' = other.idx
    /\ created_files' = other.created_files
    /\ archive_path' = other.archive_path
    /\ archive_bytes' = other.archive_bytes
    /\ exc' = other.exc
    /\ error_shown' = other.error_shown
    /\ session_state' = other.session_state
    /\ UNCHANGED <<rar_available, fs, tmp_count, runs, model_calls,
                   chmod_failed, rmtree_failed>>

InitTwo ==
    /\ InitWith({EnvKey}, {{}, {"rar"}}, "few")
    /\ \E u \in UiNames : other = [NoRun EXCEPT !.pc = "start", !.ui_name = u]

NextTwo ==
    \/ Next
    \/ (Switch /\ UNCHANGED <<pure_vars, gen_vars, env_vars, inv_vars>>)

SpecTwo == InitTwo /\ [][NextTwo]_vars

\* the run variables at rest, for the specifications of the pure functions
RunIdle ==
    /\ pc = "off"
    /\ credentials = NoKey
    /\ tools = {}
    /\ rar_available = FALSE
    /\ replies = "any"
    /\ ui_name = NoStr
    /\ fs = InitialFs
    /\ tmp_count = 0
    /\ manifest = NoManifest
    /\ tmp_root = NoPath
    /\ proj_dir = NoPath
    /\ idx = 0
    /\ created_files = <<>>
    /\ archive_path = NoPath
    /\ archive_bytes = NoBytes
    /\ exc = FALSE
    /\ error_shown = FALSE
    /\ session_state = EmptySession
    /\ runs = 0
    /\ model_calls = 0
    /\ chmod_failed = FALSE
    /\ rmtree_failed = FALSE
    /\ other = NoRun

(***************************************************************************)
(* Specification SpecSan: sanitize_relative_path applied to every string   *)
(* of at most MaxLen characters over PathChars.                            *)
(***************************************************************************)
PathChars == {"/", "\\", ".", " ", "a"}

InitSan ==
    /\ path \in StringsUpTo(PathChars, MaxLen)
    /\ rel_path = NoStr
    /\ san_pc = "input"
    /\ ExtIdle
    /\ GenIdle
    /\ RunIdle
    /\ InvIdle

Sanitize ==
    /\ san_pc = "input"
    /\ rel_path' = sanitize_relative_path(path)
    /\ san_pc' = "done"
    /\ UNCHANGED path
    /\ UNCHANGED ext_vars
    /\ UNCHANGED gen_vars
    /\ UNCHANGED run_vars
    /\ UNCHANGED inv_vars

NextSan == Sanitize

SpecSan == InitSan /\ [][NextSan]_vars

(***************************************************************************)
(* Specification SpecExt: extract_json_from_text applied to texts built    *)
(* from serialized JSON objects, fences and prose, and to every text of at *)
(* most MaxText characters that has no "{".                                *)
(***************************************************************************)
RECURSIVE Dumps(_, _)
RECURSIVE DumpMembers(_, _)

\* json.dumps(v, separators=(", ", ": ")) when sp is a blank, and
\* json.dumps(v, separators=(",", ":")) when sp is empty
Dumps(v, sp) ==
    IF v.t = "str" THEN <<"\"">> \o v.s \o <<"\"">>
    ELSE IF v.t = "num" THEN v.s
    ELSE <<"{">> \o DumpMembers(v.m, sp) \o <<"}">>

DumpMembers(m, sp) ==
    IF m = <<>> THEN <<>>
    ELSE <<"\"">> \o m[1][1] \o <<"\"", ":">> \o sp \o Dumps(m[1][2], sp)
         \o (IF Len(m) > 1 THEN <<",">> \o sp \o DumpMembers(Tail(m), sp) ELSE <<>>)

Member(k, v) == <<k, v>>

Objects ==
    { JObj(<<>>),
      JObj(<<Member(<<"p">>, JStr(<<"o">>))>>),
      JObj(<<Member(<<"p">>, JStr(<<"o">>)), Member(<<"s">>, JNum(<<"1">>))>>),
      JObj(<<Member(<<"p">>, JObj(<<Member(<<"s">>, JStr(<<>>))>>))>>),
      JObj(<<Member(<<"p">>, JStr(<<"}">>))>>),
      JObj(<<Member(<<"p">>, JStr(Fence))>>),
      JObj(<<Member(<<"p">>, JStr(<<"}">> \o Fence))>>),
      JObj(<<Member(<<"p">>, JStr(Fence \o <<"{", "}">> \o Fence))>>) }

Separators == {<<>>, <<" ">>}
Gaps == {<<>>, <<"\n">>}

\* prose around a fenced block, and prose without braces or fences around a
\* bare object
Prose ==
    { <<>>, <<"p", " ">>, <<"}">>, <<"{", "p">>, Fence \o <<"p">> \o Fence,
      Fence \o JsonTag \o <<"{", " ">> }
PlainProse == { <<>>, <<"p", " ">>, <<"\n", "n">> }

\* text that is not JSON, between braces
Junk == { <<"{", "p", "}">>, <<"{", "\"", "p", "\"", "}">> }

JsonFenceTexts ==
    { [text |-> pre \o Fence \o JsonTag \o g \o Dumps(o, sp) \o g \o Fence \o post,
       wrap |-> "json_fence", obj |-> o] :
        pre \in Prose, post \in Prose, o \in Objects, sp \in Separators, g \in Gaps }

BareTexts ==
    { [text |-> pre \o Dumps(o, sp) \o post, wrap |-> "bare", obj |-> o] :
        pre \in PlainProse, post \in PlainProse, o \in Objects, sp \in Separators }

\* an untagged block holding an object, then a json block holding junk
TwoBlockTexts ==
    { [text |-> Fence \o g \o Dumps(o, sp) \o g \o Fence \o <<"\n">>
                \o Fence \o JsonTag \o g \o j \o g \o Fence,
       wrap |-> "two_blocks", obj |-> o] :
        o \in Objects, sp \in Separators, g \in Gaps, j \in Junk }

\* the tag of a block that is not tagged json: none, or another language
OtherTags == { <<>>, <<"p">> }

\* a block that is not tagged json holding an object, then prose, then a
\* json block holding a different object
EarlierBlockTexts ==
    { [text |-> Fence \o tag \o <<"\n">> \o Dumps(o1, sp) \o g \o Fence
                \o mid \o Fence \o JsonTag \o g \o Dumps(o2, sp) \o g \o Fence,
       wrap |-> "earlier_block", obj |-> o2] :
        tag \in OtherTags, o1 \in Objects, o2 \in Objects, sp \in Separators,
        g \in Gaps, mid \in PlainProse }

\* texts that are, or hold in a json block, a JSON value that is not an
\* object but has braces in it
ValueTexts ==
    { [text |-> pre \o Dumps(JStr(v), <<>>) \o post, wrap |-> "value", obj |-> JStr(v)] :
        pre \in {<<>>, Fence \o JsonTag}, post \in {<<>>, Fence},
        v \in {<<"{", "}">>, <<"{", "1", "}">>} }
    \cup { [text |-> <<"1", " ">> \o Dumps(o, <<>>), wrap |-> "value", obj |-> JNum(<<"1">>)] :
              o \in {JObj(<<>>)} }

NoBraceChars == {BT, "}", "j", "\"", " "}

NoBraceTexts ==
    { [text |-> t, wrap |-> "no_brace", obj |-> JNull] :
        t \in StringsUpTo(NoBraceChars, MaxText)
              \cup {Fence \o JsonTag \o <<"}">> \o Fence} }

InitExt ==
    /\ \E in \in JsonFenceTexts \cup BareTexts \cup TwoBlockTexts \cup EarlierBlockTexts
                 \cup ValueTexts \cup NoBraceTexts :
        /\ text = in.text
        /\ wrap = in.wrap
        /\ obj = in.obj
    /\ extracted = [kind |-> "none", val |-> JNull]
    /\ ext_pc = "input"
    /\ SanIdle
    /\ GenIdle
    /\ RunIdle
    /\ InvIdle

Extract ==
    /\ ext_pc = "input"
    /\ extracted' = extract_json_from_text(text)
    /\ ext_pc' = "done"
    /\ UNCHANGED <<text, wrap, obj>>
    /\ UNCHANGED san_vars
    /\ UNCHANGED gen_vars
    /\ UNCHANGED run_vars
    /\ UNCHANGED inv_vars

NextExt == Extract

SpecExt == InitExt /\ [][NextExt]_vars

(***************************************************************************)
(* Specification SpecMat: write_files_from_manifest on a manifest of one   *)
(* entry whose path is any string of at most MaxLen characters over        *)
(* PathChars, from the state in which the generation run calls it.         *)
(***************************************************************************)
MatTmpRoot == Append(TempDir, TmpNames[1])
MatProjDir == Append(MatTmpRoot, <<"c">>)

\* the state in which the run calls write_files_from_manifest on manifest m
MatState(m) ==
    /\ SanIdle /\ ExtIdle /\ GenIdle /\ InvIdle
    /\ pc = "write_files"
    /\ credentials = EnvKey
    /\ tools = {}
    /\ rar_available = FALSE
    /\ replies = "any"
    /\ runs = 1
    /\ model_calls = 1
    /\ chmod_failed = FALSE
    /\ rmtree_failed = FALSE
    /\ other = NoRun
    /\ ui_name = NoStr
    /\ fs = Mkdir(InitialFs, MatProjDir)
    /\ tmp_count = 1
    /\ manifest = m
    /\ tmp_root = MatTmpRoot
    /\ proj_dir = MatProjDir
    /\ idx = 1
    /\ created_files = <<>>
    /\ archive_path = NoPath
    /\ archive_bytes = NoBytes
    /\ exc = FALSE
    /\ error_shown = FALSE
    /\ session_state = [generated_manifest |-> None(NoManifest),
                        created_files |-> <<>>,
                        archive_bytes |-> None(NoBytes),
                        archive_name |-> None(NoStr),
                        archive_mime |-> None("")]

\* a manifest of one entry
OneEntry(p, c) ==
    [has_name |-> TRUE, project_name |-> <<"c">>, has_files |-> TRUE,
     files |-> <<[path |-> p, content |-> c, executable |-> FALSE]>>]

InitMat == \E p \in StringsUpTo(PathChars, MaxLen) : MatState(OneEntry(p, <<"x">>))

NextMat ==
    \/ (WriteFile /\ UNCHANGED <<rest_vars, runs, model_calls, rmtree_failed>>)
    \/ (WriteFilesReturn /\ UNCHANGED <<rest_vars, runs, model_calls, chmod_failed, rmtree_failed>>)

SpecMat == InitMat /\ [][NextMat]_vars

(***************************************************************************)
(* Specification SpecTxt: write_files_from_manifest on a manifest of one   *)
(* entry whose content is any text of at most MaxContent characters over   *)
(* TextChars, which holds both line-ending characters.                     *)
(***************************************************************************)
TextChars == {"x", "\r", "\n"}

InitTxt == \E c \in StringsUpTo(TextChars, MaxContent) : MatState(OneEntry(<<"a">>, c))

SpecTxt == InitTxt /\ [][NextMat]_vars

(***************************************************************************)
(* Specification SpecGen: the tests generate_with_gemini makes on the      *)
(* response, for every response of Responses.                              *)
(***************************************************************************)
InitGen ==
    /\ SanIdle /\ ExtIdle /\ RunIdle /\ InvIdle
    /\ response \in Responses
    /\ returned = [kind |-> "none", val |-> NoStr]
    /\ gen_pc = "input"

GenReturn ==
    /\ gen_pc = "input"
    /\ returned' = generate_with_gemini(response)
    /\ gen_pc' = "done"
    /\ UNCHANGED response

NextGen ==
    /\ GenReturn
    /\ UNCHANGED pure_vars
    /\ UNCHANGED run_vars
    /\ UNCHANGED inv_vars

SpecGen == InitGen /\ [][NextGen]_vars

(***************************************************************************)
(* Specification SpecInv: any sequence of the six operations of the        *)
(* inventory store, from the empty database init_db makes; each operation  *)
(* is one transaction on its own connection.  At most MaxRows rows are     *)
(* ever inserted into each table.                                          *)
(***************************************************************************)
InitInv ==
    /\ SanIdle /\ ExtIdle /\ GenIdle /\ RunIdle
    /\ proveedores = EmptyStore.proveedores
    /\ productos = EmptyStore.productos
    /\ seq = EmptyStore.seq
    /\ inv_result = NoOutcome

NextInv ==
    \/ (crear_proveedor /\ UNCHANGED <<pure_vars, gen_vars, run_vars>>)
    \/ (actualizar_proveedor /\ UNCHANGED <<pure_vars, gen_vars, run_vars>>)
    \/ (eliminar_proveedor /\ UNCHANGED <<pure_vars, gen_vars, run_vars>>)
    \/ (crear_producto /\ UNCHANGED <<pure_vars, gen_vars, run_vars>>)
    \/ (actualizar_producto /\ UNCHANGED <<pure_vars, gen_vars, run_vars>>)
    \/ (eliminar_producto /\ UNCHANGED <<pure_vars, gen_vars, run_vars>>)

SpecInv == InitInv /\ [][NextInv]_vars

(***************************************************************************)
(* Properties                                                              *)
(***************************************************************************)
HasSegment(s, seg) == \E k \in 1..Len(StrSplit(s, "/")) : StrSplit(s, "/")[k] = seg

\* C1: every file write_files_from_manifest creates lies strictly inside
\* base_dir, and every relative path it wrote has no "..", "." or empty
\* segment (hence no leading "/"), whatever the path string of the entry.
C1_WritesStayInsideBaseDir ==
    /\ \A q \in DOMAIN fs : fs[q].kind = "file" => StrictlyInside(q, proj_dir)
    /\ \A i \in 1..Len(created_files) :
        \A seg \in BannedParts : ~HasSegment(created_files[i], seg)

\* a file was written for an entry whose path climbs with ".." from the root
C1_Witness ==
    /\ pc = "write_files" /\ idx = 2
    /\ manifest.files[1].path = <<"/", ".", ".", "/", "a">>
    /\ created_files = << <<"a">> >>
    /\ Append(proj_dir, <<"a">>) \in DOMAIN fs

\* C2: when a run that created the temporary directory ends, whatever the
\* exit path, the temporary directory no longer exists (unless the removal
\* itself was tried and failed).
C2_TmpRootRemovedAtEnd ==
    (pc = "done" /\ tmp_root # NoPath /\ ~rmtree_failed) => tmp_root \notin DOMAIN fs

\* C7 as stated: replace backslashes, strip a leading "./", strip leading
\* "/", split on "/", drop "", "." and "..", rejoin; nothing else is touched.
StatedProcedure(p) ==
    LET p1 == StrReplace(p, "\\", "/")
        p2 == IF Len(p1) >= 2 /\ Take(p1, 2) = <<".", "/">> THEN Drop(p1, 2) ELSE p1
        p3 == LStrip(p2, {"/"})
    IN  StrJoin(FilterOut(StrSplit(p3, "/"), BannedParts), "/")

C7_AsStated == san_pc = "done" => rel_path = StatedProcedure(path)

\* The amended procedure, segment by segment: trim the whitespace at both
\* ends, read "\" as "/", cut into segments at "/", forget the first segment
\* when it is a non-empty run of dots that a "/" follows, forget every
\* segment equal to "", "." or "..", and rejoin with "/".
RECURSIVE Trimmed(_)
Trimmed(s) ==
    IF s = <<>> THEN s
    ELSE IF Head(s) \in SpaceChars THEN Trimmed(Tail(s))
    ELSE IF s[Len(s)] \in SpaceChars THEN Trimmed(SubSeq(s, 1, Len(s) - 1))
    ELSE s

AllDots(seg) == seg # <<>> /\ \A k \in 1..Len(seg) : seg[k] = "."

RECURSIVE Segments(_, _)
Segments(s, cur) ==
    IF s = <<>> THEN <<cur>>
    ELSE IF Head(s) \in {"/", "\\"} THEN <<cur>> \o Segments(Tail(s), <<>>)
    ELSE Segments(Tail(s), Append(cur, Head(s)))

RECURSIVE Rejoined(_)
Rejoined(segs) ==
    IF segs = <<>> THEN <<>>
    ELSE IF Head(segs) \in {<<>>, <<".">>, <<".", ".">>} THEN Rejoined(Tail(segs))
    ELSE LET rest == Rejoined(Tail(segs))
         IN  IF rest = <<>> THEN Head(segs) ELSE Head(segs) \o <<"/">> \o rest

AmendedProcedure(p) ==
    LET segs == Segments(Trimmed(p), <<>>)
    IN  Rejoined(IF Len(segs) >= 2 /\ AllDots(segs[1]) THEN Tail(segs) ELSE segs)

\* C7 (amended): sanitize_relative_path(p) is the result of: strip the
\* surrounding whitespace, replace every backslash by "/", strip a leading
\* run of one or more dots followed by "/", strip leading "/", split on "/",
\* drop every segment equal to "", "." or "..", rejoin with "/".
C7_SanitizeIsAmendedProcedure ==
    san_pc = "done" => rel_path = AmendedProcedure(path)

\* the call has returned for a path with a leading blank and for one that
\* starts with three dots and a slash
C7_Witness ==
    /\ san_pc = "done"
    /\ \/ path = <<" ", "a">> /\ rel_path = <<"a">>
       \/ path = <<".", ".", ".", "/", "a">> /\ rel_path = <<"a">>

\* C8: without the rar binary, create_archive_from_dir returns a path with
\* suffix ".zip" that names the archive it created, whose contents are the
\* files of src_dir, whatever out_name is.
C8_ZipPathNamesCreatedArchive ==
    (pc = "read_bytes" /\ ~rar_available) =>
        /\ Suffix(archive_path) = DotZip
        /\ archive_path \in DOMAIN fs
        /\ fs[archive_path].kind = "zip"
        /\ fs[archive_path].tree = TreeOf(fs, proj_dir)

\* C9: when a run is over, nothing it created is left on disk (unless the
\* removal of the temporary directory was tried and failed).
C9_NothingLeftOnDisk == (pc = "done" /\ ~rmtree_failed) => fs = InitialFs

\* the entries of files, up to n, whose path sanitizes to r
EntriesFor(files, r) ==
    {i \in 1..Len(files) : sanitize_relative_path(files[i].path) = r}

Max(S) == CHOOSE m \in S : \A n \in S : n <= m

\* C10: when write_files_from_manifest returns, each sanitized path of the
\* manifest names exactly one file, which holds the content of the last
\* entry with that sanitized path.
C10_LastWriteWins ==
    pc = "create_archive" =>
        /\ \A i \in 1..Len(manifest.files) :
            LET r == sanitize_relative_path(manifest.files[i].path)
                last == Max(EntriesFor(manifest.files, r))
            IN  r # NoStr =>
                  /\ JoinPath(proj_dir, r) \in DOMAIN fs
                  /\ fs[JoinPath(proj_dir, r)].kind = "file"
                  /\ fs[JoinPath(proj_dir, r)].content = manifest.files[last].content
        /\ Cardinality({q \in DOMAIN fs : fs[q].kind = "file"})
             = Cardinality({sanitize_relative_path(manifest.files[i].path) :
                               i \in 1..Len(manifest.files)} \ {NoStr})

\* two entries with the same sanitized path and different contents were
\* written
C10_Witness ==
    /\ pc = "create_archive"
    /\ Len(manifest.files) = 2
    /\ manifest.files[1].path = <<"a">>
    /\ manifest.files[2].path = <<".", ".", "/", "a">>
    /\ manifest.files[1].content = <<"x">>
    /\ manifest.files[2].content = <<"y">>
    /\ fs[Append(proj_dir, <<"a">>)].content = <<"y">>

\* what a strategy yields: it located a span and the span is valid JSON
Yields(m) == m.found /\ json_loads(m.raw).ok

\* C3: the three strategies are tried in order and the first one that yields
\* valid JSON decides the result; the call fails only when none does.
C3_FirstValidStrategyWins ==
    ext_pc = "done" =>
        IF Yields(JsonBlockSearch(text))
        THEN extracted = Returned(JsonBlockSearch(text).raw)
        ELSE IF Yields(AnyBlockSearch(text))
        THEN extracted = Returned(AnyBlockSearch(text).raw)
        ELSE IF Yields(BraceSpan(text))
        THEN extracted = Returned(BraceSpan(text).raw)
        ELSE extracted.kind # "manifest"

\* C4: an object serialized, wrapped in a block tagged json and embedded in
\* prose is returned equal to the object.
C4_JsonFenceRoundTrip ==
    (ext_pc = "done" /\ wrap = "json_fence") =>
        extracted = [kind |-> "manifest", val |-> obj]

\* C5: an object serialized without fences between prose that has no brace
\* is returned equal to the object.
C5_BareObjectRoundTrip ==
    (ext_pc = "done" /\ wrap = "bare") =>
        extracted = [kind |-> "manifest", val |-> obj]

\* C6: a text without "{" ends in the error raised by the last line of
\* extract_json_from_text, never in a manifest or another error.
C6_NoBraceIsValueError ==
    (ext_pc = "done" /\ StrFind(text, "{") = 0) => extracted.kind = "ValueError"

\* the call has failed on a text that has a "}" and a fence but no "{"
C6_Witness ==
    /\ ext_pc = "done"
    /\ text = <<"}", BT, BT, BT>>
    /\ extracted.kind = "ValueError"

\* the paths the entries of files are to be written at, in order: the
\* sanitized path of each entry, the entries that sanitize to "" left out
RECURSIVE WrittenPaths(_)
WrittenPaths(files) ==
    IF files = <<>> THEN <<>>
    ELSE LET r == AmendedProcedure(Head(files).path)
         IN  (IF r = NoStr THEN <<>> ELSE <<r>>) \o WrittenPaths(Tail(files))

\* the list and the disk match the entries processed so far
C11_ListMatchesEntries ==
    /\ pc = "write_files" =>
          created_files = WrittenPaths(SubSeq(FilesOf(manifest), 1, idx - 1))
    /\ pc = "create_archive" =>
          /\ created_files = WrittenPaths(FilesOf(manifest))
          /\ {q \in DOMAIN fs : fs[q].kind = "file"}
               = {JoinPath(proj_dir, created_files[i]) : i \in 1..Len(created_files)}

\* an entry that sanitizes to "" is passed over: no file, no element, no error
C11_SkipStep ==
    (/\ pc = "write_files"
     /\ idx <= Len(FilesOf(manifest))
     /\ AmendedProcedure(FilesOf(manifest)[idx].path) = NoStr)
    => (/\ pc' = "write_files"
        /\ idx' = idx + 1
        /\ fs' = fs
        /\ created_files' = created_files
        /\ error_shown' = FALSE)

\* C11: write_files_from_manifest returns exactly the sanitized paths of the
\* entries it wrote, in manifest order, one per written entry, and these are
\* the files on disk; an entry whose path is empty, whitespace or sanitizes
\* to "" is skipped without error, creates no file and adds no element.
C11_ReturnsWrittenPaths == []C11_ListMatchesEntries /\ [][C11_SkipStep]_vars

C11_Witness ==
    /\ pc = "create_archive"
    /\ Len(FilesOf(manifest)) = 2
    /\ manifest.files[1].path = <<" ">>
    /\ manifest.files[2].path = <<"a", "/", "b">>
    /\ created_files = << <<"a", "/", "b">> >>
    /\ Cardinality({q \in DOMAIN fs : fs[q].kind = "file"}) = 1

\* C12: for a manifest whose "files" is empty or absent, materialization
\* returns an empty list and creates no file, and packaging returns the path
\* of an archive that exists and is empty, which the run then reads and stores.
C12_EmptyManifestIsPackaged ==
    FilesOf(manifest) = <<>> =>
        /\ pc = "create_archive" =>
              /\ created_files = <<>>
              /\ \A q \in DOMAIN fs : fs[q].kind # "file"
        /\ pc = "read_bytes" =>
              /\ archive_path \in DOMAIN fs
              /\ fs[archive_path].kind \in {"rar", "zip"}
              /\ fs[archive_path].tree = {}
        /\ pc = "store" => archive_bytes.tree = {}

EndsWith(s, e) == Len(s) >= Len(e) /\ Drop(s, Len(s) - Len(e)) = e

\* the archive files on disk that the current run made: those below its
\* temporary directory and those beside it that carry its name
ArchivesOfRun ==
    {q \in DOMAIN fs :
        /\ fs[q].kind \in {"rar", "zip"}
        /\ \/ IsPrefix(tmp_root, q)
           \/ q \in {Append(Parent(tmp_root), Name(tmp_root) \o e) : e \in {DotRar, DotZip}}}

\* C13: after any sequence of generation requests the stored archive name
\* ends in ".rar" exactly when the stored MIME type is the rar one and in
\* ".zip" exactly when it is the zip one, and a request that stores its
\* result has made exactly one archive, the one it stores.
C13_MimeMatchesExtension ==
    /\ session_state.archive_name.is_none = session_state.archive_mime.is_none
    /\ ~session_state.archive_name.is_none =>
          /\ EndsWith(session_state.archive_name.val, DotRar)
                <=> session_state.archive_mime.val = MimeRar
          /\ EndsWith(session_state.archive_name.val, DotZip)
                <=> session_state.archive_mime.val = MimeZip
    /\ pc = "store" =>
          /\ ArchivesOfRun = {archive_path}
          /\ archive_bytes = [fmt |-> fs[archive_path].kind,
                              tree |-> fs[archive_path].tree]

\* a second request stored a rar archive whose name has two dots
C13_Witness ==
    /\ runs = 2
    /\ pc = "done"
    /\ ~error_shown
    /\ session_state.archive_name = Some(<<"a", ".", "b", ".", "r", "a", "r">>)
    /\ session_state.archive_mime = Some(MimeRar)

RarFound == \E n \in RarNames : n \in tools

\* zip archives exist only without rar; a run whose packaging failed or that
\* ended with an error has stored nothing and left no archive
C14_NoDowngrade ==
    /\ (\E q \in DOMAIN fs : fs[q].kind = "zip") => ~RarFound
    /\ (~session_state.archive_bytes.is_none /\ RarFound)
          => session_state.archive_bytes.val.fmt = "rar"
    /\ (pc \in {"cleanup", "done"} /\ archive_path = NoPath) =>
          /\ session_state = EmptySession
          /\ \A q \in DOMAIN fs : fs[q].kind \notin {"rar", "zip"}
    /\ (pc = "done" /\ error_shown) => session_state = EmptySession

\* a failed invocation of the archiver makes no archive and leaves through
\* the finally block with the exception, which ends the run with st.error
C14_FailureStep ==
    /\ (pc = "create_archive" /\ archive_path' = NoPath)
          => (exc' /\ pc' = "cleanup" /\ fs' = fs)
    /\ (pc = "cleanup" /\ exc)
          => (pc' = "done" /\ error_shown' /\ session_state' = session_state)

\* C14: when a rar binary is found and its invocation fails, the request
\* fails: no zip archive is made instead and nothing is stored; a zip
\* archive is made only when none of "rar", "Rar", "rar.exe", "Rar.exe" is
\* on the search path.
C14_RarFailureIsFatal == []C14_NoDowngrade /\ [][C14_FailureStep]_vars

\* the invocation of the binary found as "Rar.exe" has just failed
C14_Witness ==
    /\ tools = {"Rar.exe"}
    /\ pc = "cleanup"
    /\ exc
    /\ archive_path = NoPath
    /\ proj_dir # NoPath

Absent(v) == v.is_none \/ v.val = NoStr

NoCredential ==
    /\ Absent(credentials.env_gemini) /\ Absent(credentials.env_google)
    /\ Absent(credentials.sec_gemini) /\ Absent(credentials.sec_google)

\* C15: when none of the four places holds a non-empty key, the page stops
\* at the pre-flight test: no button press is handled, the model is never
\* called, no temporary directory is made, the disk and the session state
\* stay as they were.
C15_NoKeyNoWork ==
    NoCredential =>
        /\ pc \in {"start", "stopped"}
        /\ runs = 0
        /\ model_calls = 0
        /\ tmp_count = 0
        /\ fs = InitialFs
        /\ session_state = EmptySession

\* the page has stopped on a host whose only values are empty strings
C15_Witness ==
    /\ pc = "stopped"
    /\ error_shown
    /\ credentials.env_gemini = Some(NoStr)
    /\ credentials.env_google = None(NoStr)
    /\ credentials.sec_gemini = None(NoStr)
    /\ credentials.sec_google = Some(NoStr)

\* the response carries no non-empty text: response.text is missing or
\* empty, and no part of any candidate has a non-empty text
Textless(r) ==
    /\ ~r.has_text \/ r.text = NoStr
    /\ \A i \in 1..Len(r.candidates) :
         \A j \in 1..Len(r.candidates[i].parts) :
            \/ ~r.candidates[i].parts[j].has_text
            \/ r.candidates[i].parts[j].text = NoStr

\* C16: generate_with_gemini raises the "no usable text" RuntimeError for
\* every response that carries no non-empty text, and never returns "".
C16_TextlessIsError ==
    gen_pc = "done" =>
        /\ Textless(response) => returned.kind = "RuntimeError"
        /\ ~(returned.kind = "text" /\ returned.val = NoStr)

\* the positions of a run, in the order of the script
PcOrder ==
    <<"start", "idle", "generate_with_gemini", "extract_json_from_text",
      "mkdtemp", "proj_dir_mkdir", "write_files", "create_archive",
      "read_bytes", "store", "cleanup", "done", "stopped">>
Rank(p) == CHOOSE i \in 1..Len(PcOrder) : PcOrder[i] = p

\* one call of the model at most, and a run ends either with the error
\* shown and nothing stored, or with no error and its result stored
C17_OneCallOneOutcome ==
    /\ model_calls <= runs
    /\ runs <= 1
    /\ pc = "done" =>
          IF error_shown THEN session_state = EmptySession
          ELSE /\ session_state.generated_manifest = Some(manifest)
               /\ session_state.archive_bytes = Some(archive_bytes)

\* no position is taken twice; a step that does not go on to the next
\* position ends the run with the error shown, at once or, inside the try,
\* through the finally block; a failed chmod or rmtree changes nothing of this
C17_NoRetryStep ==
    /\ \/ Rank(pc') > Rank(pc)
       \/ pc = "write_files" /\ pc' = "write_files" /\ idx' = idx + 1
    /\ \/ Rank(pc') = Rank(pc) + 1 /\ error_shown' = error_shown /\ exc' = exc
       \/ pc = "write_files" /\ pc' = "write_files"
       \/ pc \notin {"create_archive", "read_bytes", "store", "cleanup"}
            /\ pc' \in {"done", "stopped"} /\ error_shown'
       \/ pc \in {"create_archive", "read_bytes"} /\ pc' = "cleanup" /\ exc'
       \/ pc = "cleanup" /\ pc' = "done" /\ error_shown' = exc
    /\ (chmod_failed' /\ ~chmod_failed)
          => (pc' = "write_files" /\ idx' = idx + 1 /\ ~error_shown')
    /\ (rmtree_failed' /\ ~rmtree_failed) => (pc' = "done" /\ error_shown' = exc)

\* C17: a generation calls the model at most once and repeats no stage; a
\* failure of the model call, the extraction, the materialization or the
\* packaging ends the run with the error reported and nothing stored; only a
\* failed chmod and a failed removal of the temporary directory let the run
\* go on.
C17_FailuresEndTheRun == []C17_OneCallOneOutcome /\ [][C17_NoRetryStep]_vars

\* a run ended well although a chmod and the removal both failed
C17_Witness ==
    /\ pc = "done"
    /\ ~error_shown
    /\ chmod_failed
    /\ rmtree_failed
    /\ model_calls = 1
    /\ ~session_state.archive_bytes.is_none

\* the entries before the next one of the loop whose sanitized path is r
\* and that ask for the execute bits
ExecEntriesFor(r) ==
    {i \in 1..(idx - 1) : /\ AmendedProcedure(FilesOf(manifest)[i].path) = r
                          /\ FilesOf(manifest)[i].executable}

\* a written file is executable only if an entry for it asked for it, and
\* is executable if one did and no chmod failed
C18_ExecBits ==
    pc \in {"write_files", "create_archive"} =>
        \A k \in 1..Len(created_files) :
            LET q == JoinPath(proj_dir, created_files[k])
            IN  /\ q \in DOMAIN fs /\ fs[q].kind = "file"
                /\ fs[q].exec => ExecEntriesFor(created_files[k]) # {}
                /\ (~chmod_failed /\ ExecEntriesFor(created_files[k]) # {})
                      => fs[q].exec

\* a chmod that fails is passed over: the content is written, the path is
\* appended, the loop goes on to the next entry and no error is shown
C18_SwallowStep ==
    (chmod_failed' /\ ~chmod_failed) =>
        LET f == FilesOf(manifest)[idx]
            r == AmendedProcedure(f.path)
        IN  /\ f.executable
            /\ pc' = "write_files" /\ idx' = idx + 1
            /\ created_files' = Append(created_files, r)
            /\ fs'[JoinPath(proj_dir, r)].content = f.content
            /\ ~error_shown'

\* C18: for an entry with executable true the execute bits are added after
\* the content is written; when that fails the file keeps its content, its
\* path is still returned, the loop continues and the run is not aborted;
\* an entry that is not executable never gets the execute bits set.
C18_ChmodIsBestEffort == []C18_ExecBits /\ [][C18_SwallowStep]_vars

\* the chmod of the first entry failed, the second entry was written over it
C18_Witness ==
    /\ pc = "create_archive"
    /\ chmod_failed
    /\ Len(FilesOf(manifest)) = 2
    /\ manifest.files[1].path = <<"a">> /\ manifest.files[1].executable
    /\ manifest.files[2].path = <<".", ".", "/", "a">>
    /\ ~manifest.files[2].executable
    /\ created_files = << <<"a">>, <<"a">> >>
    /\ ~fs[JoinPath(proj_dir, <<"a">>)].exec
    /\ fs[JoinPath(proj_dir, <<"a">>)].content = manifest.files[2].content

\* the stage a position belongs to: 1 prompt build, 2 model call,
\* 3 extraction, 4 temporary directory, 5 materialization, 6 packaging,
\* 7 cleanup; 0 before the button is pressed, 8 when the run is over
Stage(p) ==
    CASE p \in {"start", "idle"} -> 0
      [] p = "generate_with_gemini" -> 2
      [] p = "extract_json_from_text" -> 3
      [] p \in {"mkdtemp", "proj_dir_mkdir"} -> 4
      [] p = "write_files" -> 5
      [] p \in {"create_archive", "read_bytes", "store"} -> 6
      [] p = "cleanup" -> 7
      [] p \in {"done", "stopped"} -> 8

\* before the temporary-directory stage, and after a run that never
\* reached it, nothing is on disk
C19_NoDiskBeforeMkdtemp ==
    /\ Stage(pc) <= 4 /\ pc # "proj_dir_mkdir"
          => (tmp_root = NoPath /\ tmp_count = 0 /\ fs = InitialFs)
    /\ (pc = "done" /\ tmp_root = NoPath) => fs = InitialFs

\* a step stays in its stage or starts the next one with no failure
\* pending, or ends the run
C19_StepAsStated ==
    pc' # pc =>
        \/ /\ pc = "idle" /\ pc' = "generate_with_gemini"
        \/ /\ Stage(pc') \in {Stage(pc), Stage(pc) + 1}
           /\ ~exc' /\ ~error_shown'
        \/ pc' \in {"done", "stopped"}

\* C19 as stated: the stages run in order, none twice, and none is started
\* unless the one before succeeded.
C19_AsStated == []C19_NoDiskBeforeMkdtemp /\ [][C19_StepAsStated]_vars

\* the same, but the cleanup stage is also started with the exception of a
\* failed packaging pending
C19_StepAmended ==
    pc' # pc =>
        \/ /\ pc = "idle" /\ pc' = "generate_with_gemini"
        \/ /\ Stage(pc') \in {Stage(pc), Stage(pc) + 1}
           /\ ~exc' /\ ~error_shown'
        \/ /\ Stage(pc) = 6 /\ pc' = "cleanup" /\ exc'
        \/ pc' \in {"done", "stopped"}

\* C19 (amended): the stages run in the order prompt build, model call,
\* extraction, temporary directory, materialization, packaging, cleanup,
\* none twice; each stage up to packaging is started only if the one before
\* succeeded, and cleanup is started after packaging whether packaging
\* succeeded or failed; a failed model call or extraction leaves no
\* temporary directory and no file.
C19_StagesInOrder == []C19_NoDiskBeforeMkdtemp /\ [][C19_StepAmended]_vars

\* the cleanup stage has started after make_archive or rar failed on a
\* project with one file
C19_Witness ==
    /\ pc = "cleanup"
    /\ exc
    /\ archive_path = NoPath
    /\ Len(created_files) = 1
    /\ tmp_root \in DOMAIN fs

\* the paths that belong to the run whose temporary directory is root: the
\* directory and all below it, and the archive beside it that carries its name
Owns(root, q) ==
    /\ root # NoPath
    /\ \/ IsPrefix(root, q)
       \/ q \in {Append(Parent(root), Name(root) \o e) : e \in {DotRar, DotZip}}

\* the two runs have different temporary directories, and the paths a run
\* works on (project directory, archive) are its own
C20_OwnPaths ==
    /\ (tmp_root # NoPath /\ other.tmp_root # NoPath) => tmp_root # other.tmp_root
    /\ proj_dir # NoPath =>
          (IsPrefix(tmp_root, proj_dir) /\ ~Owns(other.tmp_root, proj_dir))
    /\ archive_path # NoPath =>
          (Owns(tmp_root, archive_path) /\ ~Owns(other.tmp_root, archive_path))
    /\ \A k \in 1..Len(created_files) :
          /\ Owns(tmp_root, JoinPath(proj_dir, created_files[k]))
          /\ ~Owns(other.tmp_root, JoinPath(proj_dir, created_files[k]))

\* a step of one run creates, changes and deletes no path of the other, and
\* the temporary directory it makes is new
C20_ForeignPathsUntouched ==
    other' = other =>
        /\ \A q \in DOMAIN fs \cup DOMAIN fs' :
              Owns(other.tmp_root, q) =>
                  (q \in DOMAIN fs /\ q \in DOMAIN fs' /\ fs'[q] = fs[q])
        /\ tmp_root' # tmp_root => tmp_root' \notin DOMAIN fs

\* C20: two overlapping runs use different, freshly made temporary
\* directories, and neither writes, reads or deletes a project directory,
\* file or archive of the other, whatever the two manifests are.
C20_RunsShareNoPath == []C20_OwnPaths /\ [][C20_ForeignPathsUntouched]_vars

\* both runs have written the same file of the same project and have made
\* their archives
C20_Witness ==
    /\ pc = "read_bytes" /\ other.pc = "read_bytes"
    /\ manifest.project_name = <<"a">> /\ other.manifest.project_name = <<"a">>
    /\ created_files = << <<"a">> >> /\ other.created_files = << <<"a">> >>
    /\ tmp_root # other.tmp_root
    /\ archive_path \in DOMAIN fs /\ other.archive_path \in DOMAIN fs

(***************************************************************************)
(* C21: for every entry written, the file holds the entry's content with   *)
(* line endings normalized to "\n": a "\r\n" sequence of the content does  *)
(* not appear in the file, and a "\n" of the content is written as a       *)
(* single "\n".                                                            *)
(***************************************************************************)
HasCrLf(s) == \E i \in 1..(Len(s) - 1) : s[i] = "\r" /\ s[i + 1] = "\n"

\* s with every "\r\n" sequence replaced by "\n"
NormalizeCrLf(s) ==
    Flatten([i \in 1..Len(s) |->
        IF s[i] = "\r" /\ i < Len(s) /\ s[i + 1] = "\n" THEN NoStr ELSE <<s[i]>>])

C21_LineEndingsNormalized ==
    pc = "create_archive" =>
        \A k \in 1..Len(FilesOf(manifest)) :
            LET f == FilesOf(manifest)[k]
                p == JoinPath(proj_dir, sanitize_relative_path(f.path))
            IN  /\ ~HasCrLf(fs[p].content)
                /\ fs[p].content = NormalizeCrLf(f.content)


(***************************************************************************)
(* C22: after any sequence of operations every product's proveedor_id is   *)
(* NULL or the id of an existing provider; deleting a provider succeeds    *)
(* even when products reference it, sets proveedor_id to NULL on exactly   *)
(* those products, and deletes or alters no other product field or row.    *)
(***************************************************************************)
C22_NoDanglingReference ==
    \A i \in DOMAIN productos :
        productos[i].proveedor_id.is_none \/ productos[i].proveedor_id.val \in DOMAIN proveedores

C22_DeleteStep ==
    inv_result'.op = "eliminar_proveedor" =>
        /\ inv_result'.ok /\ ~inv_result'.raised
        /\ inv_result'.id \notin DOMAIN proveedores'
        /\ DOMAIN productos' = DOMAIN productos
        /\ \A i \in DOMAIN productos :
              /\ productos'[i].nombre = productos[i].nombre
              /\ productos'[i].stock = productos[i].stock
              /\ productos'[i].proveedor_id =
                    IF productos[i].proveedor_id = Some(inv_result'.id)
                    THEN NULL ELSE productos[i].proveedor_id

C22_ReferencesStayValid == []C22_NoDanglingReference /\ [][C22_DeleteStep]_vars

C22_Witness ==
    /\ inv_result.op = "eliminar_proveedor"
    /\ inv_result.id = 1
    /\ 2 \in DOMAIN proveedores
    /\ DOMAIN productos = {1, 2}
    /\ productos[1].proveedor_id = NULL
    /\ productos[2].proveedor_id = Some(2)


(***************************************************************************)
(* C27: provider names are unique in every reachable state; crear_proveedor *)
(* with a name whose stripped form a provider already holds, and           *)
(* actualizar_proveedor of an existing provider with a name whose stripped *)
(* form another provider holds, return (False, message) without raising    *)
(* and leave both tables unchanged; actualizar_proveedor with an id that   *)
(* names no provider returns (True, message) and changes nothing.          *)
(***************************************************************************)
C27_NamesUnique ==
    \A i, j \in DOMAIN proveedores :
        i # j => proveedores[i].nombre # proveedores[j].nombre

\* the operation of the step just taken was given a name that a provider
\* other than the one it addresses already holds
NameTaken ==
    /\ inv_result'.op \in {"crear_proveedor", "actualizar_proveedor"}
    /\ \E i \in DOMAIN proveedores :
          i # inv_result'.id /\ proveedores[i].nombre = StrStrip(inv_result'.nombre)

Refused ==
    /\ ~inv_result'.ok /\ ~inv_result'.raised
    /\ UNCHANGED <<proveedores, productos>>

\* the claim as stated: whatever id actualizar_proveedor is given
C27_StepAsStated == NameTaken => Refused

C27_AsStated == []C27_NamesUnique /\ [][C27_StepAsStated]_vars

\* the operation of the step just taken addressed a row that is not there
NoSuchProvider ==
    /\ inv_result'.op = "actualizar_proveedor"
    /\ inv_result'.id \notin DOMAIN proveedores

C27_DuplicateStep ==
    /\ (NameTaken /\ ~NoSuchProvider) => Refused
    /\ NoSuchProvider =>
          /\ inv_result'.ok /\ ~inv_result'.raised
          /\ UNCHANGED <<proveedores, productos>>

C27_DuplicateNameRefused == []C27_NamesUnique /\ [][C27_DuplicateStep]_vars

C27_Witness ==
    /\ inv_result = Outcome("actualizar_proveedor", 2, <<" ", "a">>, FALSE, FALSE)
    /\ DOMAIN proveedores = {1, 2}
    /\ proveedores[1].nombre = <<"a">>
    /\ proveedores[2].nombre = <<"b">>
    /\ \E i \in DOMAIN productos : productos[i].proveedor_id = Some(2)


(***************************************************************************)
(* C23: when a block that is not tagged json holds an object and a later   *)
(* block tagged json holds a valid JSON object, the object of the json     *)
(* block is returned; the any-fence strategy is consulted only when the    *)
(* json-fence strategy finds nothing.                                      *)
(***************************************************************************)
C23_JsonBlockWins ==
    /\ (ext_pc = "done" /\ wrap = "earlier_block") =>
          extracted = [kind |-> "manifest", val |-> obj]
    /\ (ext_pc = "done" /\ JsonBlockSearch(text).found) =>
          extracted = Returned(JsonBlockSearch(text).raw)


(***************************************************************************)
(* C26: whenever extract_json_from_text returns normally the value is a    *)
(* JSON object, never a string, a number or another kind of value, because *)
(* the span every strategy parses begins with "{" and ends with "}".       *)
(***************************************************************************)
InBraces(m) == m.found => (m.raw[1] = "{" /\ m.raw[Len(m.raw)] = "}")

C26_ReturnsObject ==
    ext_pc = "done" =>
        /\ InBraces(JsonBlockSearch(text))
        /\ InBraces(AnyBlockSearch(text))
        /\ InBraces(BraceSpan(text))
        /\ extracted.kind = "manifest" => extracted.val.t = "obj"

\* the text is a JSON string and the call has returned the object inside it
C26_Witness ==
    /\ ext_pc = "done"
    /\ text = <<"\"", "{", "}", "\"">>
    /\ json_loads(text).ok /\ json_loads(text).val.t = "str"
    /\ extracted = [kind |-> "manifest", val |-> JObj(<<>>)]


Untrimmed(s) == s # NoStr /\ (s[1] \in SpaceChars \/ s[Len(s)] \in SpaceChars)

\* s begins with one or more "." followed by "/"
DotsThenSlash(s) ==
    LET n == LeadingRun(s, {"."})
    IN  n >= 1 /\ n < Len(s) /\ s[n + 1] = "/"

Consistent(ss) ==
    /\ ss.archive_bytes.is_none = ss.generated_manifest.is_none
    /\ ss.archive_name.is_none = ss.generated_manifest.is_none
    /\ ss.archive_mime.is_none = ss.generated_manifest.is_none
    /\ ss.generated_manifest.is_none => ss = EmptySession
    /\ ~ss.generated_manifest.is_none =>
          /\ ss.created_files = WrittenPaths(FilesOf(ss.generated_manifest.val))
          /\ {u[1] : u \in {t \in ss.archive_bytes.val.tree : t[2] = "file"}}
                = {JoinPath(NoPath, ss.created_files[i]) : i \in 1..Len(ss.created_files)}
          /\ ss.archive_mime.val =
                (IF ss.archive_bytes.val.fmt = "rar" THEN MimeRar ELSE MimeZip)
          /\ EndsWith(ss.archive_name.val,
                      IF ss.archive_bytes.val.fmt = "rar" THEN DotRar ELSE DotZip)


\* what a run that has packaged its project stores
ResultOfRun ==
    [generated_manifest |-> Some(manifest),
     created_files |-> created_files,
     archive_bytes |-> Some(archive_bytes),
     archive_name |-> Some(Name(archive_path)),
     archive_mime |-> Some(IF archive_bytes.fmt = "rar" THEN MimeRar ELSE MimeZip)]

C24_AllOrNone ==
    /\ Consistent(session_state)
    /\ (pc = "done" /\ ~error_shown) => session_state = ResultOfRun

\* the stored fields change in one step only, the one after the archive was
\* read, and all to the values of the run; that step is never followed by a
\* failure of the run, and a failure is never followed by that step
C24_StoreStep ==
    /\ session_state' # session_state =>
          /\ pc = "store" /\ pc' = "cleanup"
          /\ ~exc /\ ~exc' /\ ~error_shown'
          /\ session_state' = ResultOfRun
    /\ (exc' /\ ~exc) => pc \in {"create_archive", "read_bytes"}
    /\ (error_shown' /\ ~error_shown) =>
          (Rank(pc) < Rank("store") \/ (pc = "cleanup" /\ exc))
    /\ \/ Rank(pc') > Rank(pc)
       \/ pc = "write_files" /\ pc' = "write_files"
       \/ pc \in {"done", "stopped"} /\ pc' = "start"

(***************************************************************************)
(* C24: the five stored result fields change together: a run that fails    *)
(* at any stage leaves all five as they were, so that the result of an     *)
(* earlier run stays intact and consistent, and a run that succeeds        *)
(* replaces all five with its own values; in every reachable state         *)
(* generated_manifest is set exactly when archive_bytes, archive_name and  *)
(* archive_mime are set.                                                   *)
(***************************************************************************)
C24_StoredTogether == []C24_AllOrNone /\ [][C24_StoreStep]_vars

\* a second run has failed in packaging, after writing its files, and the
\* result of the first run, made from another manifest, is still the one stored
C24_Witness ==
    /\ runs = 2
    /\ pc = "done"
    /\ error_shown
    /\ tmp_root # NoPath
    /\ ~session_state.generated_manifest.is_none
    /\ session_state.generated_manifest.val # manifest
    /\ session_state.created_files # created_files

====
